---- MODULE Spec2Model ----
(***************************************************************************)
(* Outbreak-prediction core of the clinical support system:                *)
(*   outbreak_predictor.py  OutbreakPredictor (train / predict / risk)     *)
(*   scheduler.py           OutbreakScheduler (daily, weekly, hourly jobs) *)
(*   app.py                 create_app, mark_alert_action_taken            *)
(* The fitted regressors and the scaler are represented by the pair whose  *)
(* series they were fitted on; their numeric outputs are inputs of a call. *)
(***************************************************************************)
EXTENDS Integers, Sequences, FiniteSets, TLC

VARIABLES
    store,      \* Predictions table, per (disease, location): total rows, active days in window
    preds,      \* in-memory state of each OutbreakPredictor instance
    last,       \* the latest direct call: the rows its pair had, what it returned, and
                \* whether an odd number of direct predict_outbreak calls were made
    files,      \* model bundles on disk: path -> pickled {model, scaler}
    alerts,     \* committed rows of outbreak_alerts
    session,    \* OutbreakAlert rows added to db.session and not yet committed
    nextId,     \* next primary key of outbreak_alerts
    notified,   \* calls of send_alert_notification, in order
    log,        \* logger.error lines, in order
    job,        \* the scheduler job being run and its position
    now,        \* wall clock, in ticks since Monday 00:00
    sched,      \* the BackgroundScheduler: running flag, registered jobs, jobs due at `now`
    eval,       \* a function of the core evaluated on its own: name, arguments, return value
    threads     \* request threads inside predict_outbreak on the routes' predictor

vars ==
    <<store, preds, last, files, alerts, session, nextId, notified, log, job, now, sched, eval,
      threads>>

(***************************************************************************)
(* Bounds of the model                                                     *)
(***************************************************************************)
NumPairs == 2          \* (disease, location) pairs present in the Predictions table
Scale == 10            \* regressor outputs are counted in 1/Scale cases
MaxRuns == 2           \* runs of a scheduled job explored per behaviour
TicksPerHour == 2      \* clock ticks per hour
MaxWeeks == 1          \* weeks of scheduler time explored
MaxNow == 3            \* clock ticks explored around the alert table
MaxAlerts == 2         \* alerts the predict API creates per behaviour
NumThreads == 2        \* request threads served at the same time

(***************************************************************************)
(* Program constants                                                       *)
(***************************************************************************)
Lookback == 90         \* fetch_historical_data(days=90)
MinRows == 30          \* len(df) < 30
MinSamples == 20       \* len(X) < 20
Horizon == 7           \* prediction_horizon=7
MediumRows == 60       \* data_points < 60
NoisyStd == 10         \* recent_std > 10
DailyMinCases == 10    \* having(count >= 10), run_daily_predictions
RetrainMinCases == 30  \* having(count >= 30), retrain_models

PairList ==
    << <<"Malaria", "Nairobi">>, <<"Malaria", "Kisii">>, <<"Typhoid", "Nairobi">>,
       <<"Dengue", "Kisii">> >>

Pairs == {PairList[i] : i \in 1..NumPairs}

NoPair == <<"", "">>

Max(a, b) == IF a >= b THEN a ELSE b

\* Python int(): truncation towards zero of num/den, den > 0.
Trunc(num, den) == IF num >= 0 THEN num \div den ELSE -((-num) \div den)

(***************************************************************************)
(* OutbreakPredictor                                                       *)
(***************************************************************************)
NoModel == [rf |-> NoPair, gb |-> NoPair]

\* OutbreakPredictor.__init__: no model, an unfitted scaler, is_trained False.
NewPredictor == [model |-> NoModel, scaler |-> NoPair, is_trained |-> FALSE]

\* mutant: the frame has one row per day with a case, no zero-filled day
FetchHistoricalData_noFill(st, p, days) ==
    [none |-> st[p].active = 0, len |-> st[p].active]

\* fetch_historical_data: None when the window holds no row of the pair, else
\* the zero-filled frame with one row per element of date_range(start, end).
FetchHistoricalData(st, p, days) ==
    IF st[p].active = 0
    THEN [none |-> TRUE, len |-> 0]
    ELSE [none |-> FALSE, len |-> days + 1]

\* prepare_training_data: rows whose target (cases Horizon days ahead) exists.
TrainingRows(len) == Max(0, len - Horizon)

\* mutant: the model is stored but the flag is never set
TrainModel_flagNotSet(pr, st, p, days, fault) ==
    [pred |-> [pr EXCEPT !.model = [rf |-> p, gb |-> p], !.scaler = p],
     success |-> TRUE, raised |-> FALSE]

\* train_model: [pred, success, raised].  fault "fetch" is an exception of the
\* query, fault "fit" an exception of rf/gb fit (the scaler is already refitted).
TrainModel(pr, st, p, days, fault) ==
    LET df == FetchHistoricalData(st, p, days) IN
    IF fault = "fetch" THEN [pred |-> pr, success |-> FALSE, raised |-> TRUE]
    ELSE IF df.none \/ df.len < MinRows
    THEN [pred |-> pr, success |-> FALSE, raised |-> FALSE]
    ELSE IF TrainingRows(df.len) < MinSamples
    THEN [pred |-> pr, success |-> FALSE, raised |-> FALSE]
    ELSE IF fault = "fit"
    THEN [pred |-> [pr EXCEPT !.scaler = p], success |-> FALSE, raised |-> TRUE]
    ELSE [pred |-> [pr EXCEPT !.model = [rf |-> p, gb |-> p], !.scaler = p,
                              !.is_trained = TRUE],
          success |-> TRUE, raised |-> FALSE]

\* a / b: the quotient as a fraction; raised when b is zero.
Divide(a, b) ==
    IF b = 0 THEN [raised |-> TRUE, num |-> 0, den |-> 1]
    ELSE [raised |-> FALSE, num |-> a, den |-> b]

\* mutant: the z-score is computed without the guard on std
ZScore_unguarded(predicted, mean, std) == Divide(predicted - mean, std)

\* lines 279-282: z_score = (predicted - mean) / std if std > 0 else 0
ZScore(predicted, mean, std) ==
    IF std > 0 THEN Divide(predicted - mean, std) ELSE Divide(0, 1)

\* mutant: the z-score is compared with a threshold one lower
ZScoreAbove_shifted(predicted, mean, std, num, den) ==
    LET z == ZScore(predicted, mean, std) IN
    ~z.raised /\ den * z.num > (num - den) * z.den

\* z_score > num/den, for den > 0.
ZScoreAbove(predicted, mean, std, num, den) ==
    LET z == ZScore(predicted, mean, std) IN
    ~z.raised /\ den * z.num > num * z.den

\* mutant: the MEDIUM row of the table is tried before the HIGH row
AssessRisk_mediumFirst(predicted, mean, std, recent_max, is_increasing) ==
    IF predicted > mean + 2 * std \/ ZScoreAbove(predicted, mean, std, 2, 1)
    THEN "CRITICAL"
    ELSE IF predicted > mean
            \/ (ZScoreAbove(predicted, mean, std, 1, 2) /\ is_increasing)
    THEN "MEDIUM"
    ELSE IF predicted > mean + std
            \/ (ZScoreAbove(predicted, mean, std, 1, 1) /\ is_increasing)
    THEN "HIGH"
    ELSE "LOW"

\* _assess_risk
AssessRisk(predicted, mean, std, recent_max, is_increasing) ==
    IF predicted > mean + 2 * std \/ ZScoreAbove(predicted, mean, std, 2, 1)
    THEN "CRITICAL"
    ELSE IF predicted > mean + std
            \/ (ZScoreAbove(predicted, mean, std, 1, 1) /\ is_increasing)
    THEN "HIGH"
    ELSE IF predicted > mean
            \/ (ZScoreAbove(predicted, mean, std, 1, 2) /\ is_increasing)
    THEN "MEDIUM"
    ELSE "LOW"

\* mutant: a noisy series is MEDIUM however short it is
CalculateConfidence_noisyFirst(data_points, recent_std) ==
    IF recent_std > NoisyStd THEN "MEDIUM"
    ELSE IF data_points < MinRows THEN "LOW"
    ELSE IF data_points < MediumRows THEN "MEDIUM"
    ELSE "HIGH"

\* _calculate_confidence
CalculateConfidence(data_points, recent_std) ==
    IF data_points < MinRows THEN "LOW"
    ELSE IF data_points < MediumRows \/ recent_std > NoisyStd THEN "MEDIUM"
    ELSE "HIGH"

\* predicted_cases = max(0, int((rf_pred + gb_pred) / 2))
EnsembleForecast(rf_pred, gb_pred) == Max(0, Trunc(rf_pred + gb_pred, 2 * Scale))

ErrorResult(msg) ==
    [error |-> msg, risk_level |-> "", predicted_cases_7d |-> 0, confidence |-> "",
     forecast_by |-> NoPair]

\* mutant: a pair with fewer than MinRows rows is still predicted
InsufficientData_never(df) == FALSE

\* predict_outbreak, line 203: df is None or len(df) < 30
InsufficientData(df) == df.none \/ df.len < MinRows

\* mutant: the model is retrained on every call
NeedsTraining_always(pr) == TRUE

\* predict_outbreak, line 211: if not self.is_trained
NeedsTraining(pr) == ~pr.is_trained

\* predict_outbreak: [pred, raised, trained, result].  in.rf[q], in.gb[q] are
\* the outputs, for the latest feature row of the fetched series, of the
\* regressors fitted on pair q; in.mean, in.std, in.incr are the statistics of
\* the fetched series; forecast_by is the pair the regressors used were fitted
\* on, and trained tells whether the call fitted a model.
PredictOutbreak(pr, st, p, in) ==
    LET df == FetchHistoricalData(st, p, Lookback) IN
    IF in.fault = "fetch"
    THEN [pred |-> pr, raised |-> TRUE, trained |-> FALSE, result |-> ErrorResult("raised")]
    ELSE IF InsufficientData(df)
    THEN [pred |-> pr, raised |-> FALSE, trained |-> FALSE,
          result |-> ErrorResult("Insufficient historical data")]
    ELSE
      LET t == IF NeedsTraining(pr)
               THEN TrainModel(pr, st, p, Lookback, in.fault)
               ELSE [pred |-> pr, success |-> TRUE, raised |-> FALSE]
          fitted == NeedsTraining(pr) /\ t.success
          predicted == EnsembleForecast(in.rf[t.pred.model.rf], in.gb[t.pred.model.gb])
      IN  IF t.raised
          THEN [pred |-> t.pred, raised |-> TRUE, trained |-> FALSE,
                result |-> ErrorResult("raised")]
          ELSE IF ~t.success
          THEN [pred |-> t.pred, raised |-> FALSE, trained |-> FALSE,
                result |-> ErrorResult("Could not train model")]
          ELSE [pred |-> t.pred, raised |-> FALSE, trained |-> fitted,
                result |-> [error |-> "",
                            risk_level |-> AssessRisk(predicted, in.mean, in.std,
                                                      in.max, in.incr),
                            predicted_cases_7d |-> predicted,
                            confidence |-> CalculateConfidence(df.len, in.std),
                            forecast_by |-> t.pred.model.rf]]

(***************************************************************************)
(* Input domains                                                           *)
(***************************************************************************)
\* A pair's rows in the Predictions table: how many there are in all, and on
\* how many days of the lookback window at least one of them falls.
Profiles ==
    {pf \in [total : {DailyMinCases - 1, DailyMinCases, RetrainMinCases},
             active : {0, 1, MinRows - 1, MinRows}] : pf.active <= pf.total}

\* Outputs of one regressor, in 1/Scale cases.
RegOut == {-(Scale \div 2), 9 * Scale + 2}

Means == {2}
Stds == {0, 4}
Maxes == {9}

\* What one predict_outbreak call reads from its environment.
Inputs(faults, stds) ==
    [fault : faults, rf : [Pairs -> RegOut], gb : [Pairs -> RegOut], mean : Means,
     std : stds, max : Maxes, incr : BOOLEAN]

\* The readings on which the regressors return the same whichever pair they
\* were fitted on.
FlatInputs(faults, stds) ==
    {in \in Inputs(faults, stds) :
        \A p, q \in Pairs : in.rf[p] = in.rf[q] /\ in.gb[p] = in.gb[q]}

Instances == {"scheduler", "routes"}

NoCall == [called |-> FALSE, odd |-> FALSE, inst |-> "", pair |-> NoPair, rows |-> 0,
           raised |-> FALSE,
           trained |-> FALSE, status |-> 0, result |-> ErrorResult("")]

NoOutcome == [p \in Pairs |-> "none"]

\* No job is running; `run` counts the job runs started so far.
Idle(run) ==
    [name |-> "idle", pc |-> "idle", combinations |-> <<>>, todo |-> <<>>,
     outcome |-> NoOutcome,
     firstId |-> 0, committed |-> FALSE, run |-> run]

NoSched == [running |-> FALSE, jobs |-> {}, due |-> {}, via |-> ""]

\* No function is being evaluated on its own.
NoEval == [fn |-> "", args |-> <<>>, done |-> FALSE, value |-> <<>>]

Threads == 1..NumThreads

\* Thread t is not inside predict_outbreak; `scaler`, `rf` and `gb` are the
\* fitted objects its latest call used, by the pair of their training run.
IdleThread ==
    [pc |-> "idle", pair |-> NoPair, trained |-> FALSE, scaler |-> NoPair, rf |-> NoPair,
     gb |-> NoPair, returned |-> FALSE, raised |-> FALSE]

\* The state after import and construction, over a given Predictions table
\* and a given models directory, with a given function evaluation pending.
InitFrom(stores, disks, evals) ==
    /\ store \in stores
    /\ preds = [i \in Instances |-> NewPredictor]
    /\ last = NoCall
    /\ files \in disks
    /\ alerts = <<>>
    /\ session = <<>>
    /\ nextId = 1
    /\ notified = <<>>
    /\ log = <<>>
    /\ job = Idle(0)
    /\ now = 0
    /\ sched = NoSched
    /\ eval \in evals
    /\ threads = [t \in Threads |-> IdleThread]

\* The same over an empty models directory.
InitWith(stores, evals) == InitFrom(stores, {<<>>}, evals)

\* The state after import and construction, over a given Predictions table.
InitOver(stores) == InitWith(stores, {NoEval})

(***************************************************************************)
(* Direct calls of predict_outbreak on the routes' module-level predictor  *)
(* (get_all_predictions, get_outbreak_hotspots), over a healthy database.  *)
(***************************************************************************)
PredictCall(p, in) ==
    LET r == PredictOutbreak(preds["routes"], store, p, in) IN
    /\ preds' = [preds EXCEPT !["routes"] = r.pred]
    /\ last' = [called |-> TRUE, odd |-> ~last.odd, inst |-> "routes", pair |-> p,
                rows |-> store[p].total,
                raised |-> r.raised, trained |-> r.trained, status |-> 0,
                result |-> r.result]
    /\ UNCHANGED <<store, files, alerts, session, nextId, notified, log, job, now, sched,
                   eval, threads>>

InitPredictor == InitOver([Pairs -> Profiles])

NextPredictor == \E p \in Pairs, in \in Inputs({"none"}, Stds) : PredictCall(p, in)

SpecPredictor == InitPredictor /\ [][NextPredictor]_vars

\* C1: every forecast returned for a pair was computed by regressors fitted on
\* that same pair's series, never by a model trained for a different pair.
C1_ForecastByOwnModel ==
    (last.called /\ ~last.raised /\ last.result.error = "")
        => last.result.forecast_by = last.pair

\* C2: a pair with fewer than 30 days of case activity in the 90-day window
\* gets an error payload: the call does not raise and yields no risk level.
C2_FewActiveDaysIsError ==
    (last.called /\ store[last.pair].active < 30)
        => (~last.raised /\ last.result.error # "" /\ last.result.risk_level = "")

(***************************************************************************)
(* OutbreakScheduler.run_daily_predictions, one step per loop iteration    *)
(***************************************************************************)
RECURSIVE Orders(_)
\* Every order in which the grouped query may return the pairs of a set.
Orders(S) ==
    IF S = {} THEN {<<>>}
    ELSE UNION {{<<p>> \o o : o \in Orders(S \ {p})} : p \in S}

\* mutant: the threshold is applied to the active days, not to the row count
DailyQualifies_byActiveDays(pf) == pf.active >= DailyMinCases

\* having(func.count(Predictions.id) >= 10)
DailyQualifies(pf) == pf.total >= DailyMinCases

\* mutant: MEDIUM results are announced too, HIGH ones are not
ShouldNotify_medium(risk_level) == risk_level \in {"CRITICAL", "MEDIUM"}

\* lines 119-124: CRITICAL and HIGH results call send_alert_notification
ShouldNotify(risk_level) == risk_level \in {"CRITICAL", "HIGH"}

\* mutant: the exception of one pair ends the loop
AfterPairError_break(todo) == <<>>

\* lines 128-130: except ... continue
AfterPairError(todo) == Tail(todo)

\* mutant: rows are committed one by one, so a failing commit keeps the first
Commit_rowByRow(table, pending, fail) ==
    IF fail /\ pending # <<>> THEN Append(table, Head(pending)) ELSE table \o pending

\* db.session.commit(), and db.session.rollback() when it raises: the table after it.
Commit(table, pending, fail) == IF fail THEN table ELSE table \o pending

\* OutbreakAlert(...), lines 105-113; prediction_data is json.dumps(result),
\* action_taken defaults to False.
NewAlert(id, p, result, ts) ==
    [id |-> id, disease |-> p[1], location |-> p[2], risk_level |-> result.risk_level,
     predicted_cases |-> result.predicted_cases_7d, confidence |-> result.confidence,
     prediction_data |-> [risk_level |-> result.risk_level,
                          predicted_cases_7d |-> result.predicted_cases_7d,
                          confidence |-> result.confidence],
     timestamp |-> ts, action_taken |-> FALSE, action_notes |-> ""]

\* lines 83-96: the grouped query; when it raises, the outer handler logs and rolls back.
DailyBegin(qfail, order) ==
    /\ job.pc = "idle"
    /\ job.run < MaxRuns
    /\ IF qfail
       THEN /\ job' = [Idle(job.run + 1) EXCEPT !.name = "daily", !.pc = "done",
                                               !.firstId = nextId]
            /\ log' = Append(log, [kind |-> "daily", run |-> job.run + 1, pair |-> NoPair])
            /\ session' = <<>>
       ELSE /\ job' = [Idle(job.run + 1) EXCEPT !.name = "daily", !.pc = "loop",
                                               !.combinations = order, !.todo = order,
                                               !.firstId = nextId]
            /\ UNCHANGED <<log, session>>
    /\ UNCHANGED <<store, preds, last, files, alerts, nextId, notified, now, sched, eval,
                   threads>>

\* lines 98-130: one iteration of the loop over the combinations.
DailyPair(in) ==
    /\ job.name = "daily" /\ job.pc = "loop" /\ job.todo # <<>>
    /\ LET p == Head(job.todo)
           r == PredictOutbreak(preds["scheduler"], store, p, in)
       IN  /\ preds' = [preds EXCEPT !["scheduler"] = r.pred]
           /\ IF r.raised
              THEN /\ log' = Append(log, [kind |-> "pair", run |-> job.run, pair |-> p])
                   /\ job' = [job EXCEPT !.todo = AfterPairError(job.todo),
                                         !.outcome[p] = "raised"]
                   /\ UNCHANGED <<session, nextId, notified>>
              ELSE IF r.result.error # ""
              THEN /\ job' = [job EXCEPT !.todo = Tail(job.todo), !.outcome[p] = "error"]
                   /\ UNCHANGED <<session, nextId, notified, log>>
              ELSE /\ session' = Append(session, NewAlert(nextId, p, r.result, now))
                   /\ nextId' = nextId + 1
                   /\ notified' = IF ShouldNotify(r.result.risk_level)
                                  THEN Append(notified,
                                              [by |-> "daily", run |-> job.run, pair |-> p,
                                               risk_level |-> r.result.risk_level])
                                  ELSE notified
                   /\ job' = [job EXCEPT !.todo = Tail(job.todo),
                                         !.outcome[p] = r.result.risk_level]
                   /\ UNCHANGED log
    /\ UNCHANGED <<store, last, files, alerts, now, sched, eval, threads>>

\* lines 132-146: the commit of the pass, then the summary; a failing commit
\* reaches the outer handler, which logs and rolls the session back.
DailyCommit(cfail) ==
    /\ job.name = "daily" /\ job.pc = "loop" /\ job.todo = <<>>
    /\ alerts' = Commit(alerts, session, cfail)
    /\ session' = <<>>
    /\ log' = IF cfail
              THEN Append(log, [kind |-> "daily", run |-> job.run, pair |-> NoPair])
              ELSE log
    /\ job' = [job EXCEPT !.pc = "done", !.committed = ~cfail]
    /\ UNCHANGED <<store, preds, last, files, nextId, notified, now, sched, eval, threads>>

\* The job function returns to the scheduler.
JobReturn ==
    /\ job.pc = "done"
    /\ job' = Idle(job.run)
    /\ UNCHANGED <<store, preds, last, files, alerts, session, nextId, notified, log, now,
                   sched, eval, threads>>

\* Tables of the daily job: pairs below and at the row threshold, with and
\* without rows inside the lookback window.
\* What the calls of a pass read, with and without an exception of the query.
DailyInputs == FlatInputs({"none", "fetch"}, Stds)

DailyProfiles ==
    {pf \in Profiles : pf.total \in {DailyMinCases - 1, DailyMinCases} \/ pf.active = MinRows}

InitDaily == InitOver([Pairs -> DailyProfiles])

NextDaily ==
    \/ \E qfail \in BOOLEAN, order \in Orders({p \in Pairs : DailyQualifies(store[p])}) :
          DailyBegin(qfail, order)
    \/ \E in \in DailyInputs : DailyPair(in)
    \/ \E cfail \in BOOLEAN : DailyCommit(cfail)
    \/ JobReturn

SpecDaily == InitDaily /\ [][NextDaily]_vars

Risks == {"LOW", "MEDIUM", "HIGH", "CRITICAL"}

\* The positions of a sequence of alert rows that the running pass created for pair p.
PassRows(rows, p) ==
    {i \in DOMAIN rows : /\ rows[i].id >= job.firstId
                         /\ rows[i].disease = p[1] /\ rows[i].location = p[2]}

\* The error lines the running pass logged for pair p.
PairErrors(p) ==
    {i \in DOMAIN log : log[i] = [kind |-> "pair", run |-> job.run, pair |-> p]}

\* The notifications the running pass dispatched for pair p.
PassNotices(p) ==
    {i \in DOMAIN notified : /\ notified[i].by = "daily" /\ notified[i].run = job.run
                             /\ notified[i].pair = p}

\* C3: an exception for one pair of the daily pass is isolated: every pair
\* with at least 10 rows is still processed, each successful pair has its
\* alert in the table after the commit, and each raising pair has exactly
\* one error line (and no alert).
C3_PairFailureIsolated ==
    (job.name = "daily" /\ job.pc = "done" /\ job.committed) =>
        \A p \in Pairs : store[p].total >= 10 =>
            /\ job.outcome[p] # "none"
            /\ job.outcome[p] \in Risks => Cardinality(PassRows(alerts, p)) = 1
            /\ job.outcome[p] = "raised" =>
                   Cardinality(PairErrors(p)) = 1 /\ PassRows(alerts, p) = {}
            /\ job.outcome[p] # "raised" => PairErrors(p) = {}

\* C3 witness: a committed pass in which a pair raised and a pair that came
\* after it in the loop has its alert in the table.
C3_Witness ==
    /\ job.name = "daily" /\ job.pc = "done" /\ job.committed
    /\ \E i, j \in DOMAIN job.combinations :
          /\ i < j
          /\ job.outcome[job.combinations[i]] = "raised"
          /\ PassRows(alerts, job.combinations[j]) # {}

\* C4: the alerts of a pass are committed atomically: when the pass has
\* ended nothing is left pending, and the alerts it created are either all
\* in the table or all absent from it.
C4_PassAtomic ==
    (job.name = "daily" /\ job.pc = "done") =>
        LET created == job.firstId .. (nextId - 1)
            persisted == {alerts[i].id : i \in DOMAIN alerts}
        IN  /\ session = <<>>
            /\ created \subseteq persisted \/ created \cap persisted = {}

\* C4 witness: a second pass whose commit failed after it created two
\* alerts: none of them is in the table, and the job ran again after an
\* earlier pass.
C4_Witness ==
    /\ job.name = "daily" /\ job.pc = "done" /\ ~job.committed /\ job.run = 2
    /\ nextId - job.firstId >= 2
    /\ \A i \in DOMAIN alerts : alerts[i].id < job.firstId

\* C5: the daily pass calls send_alert_notification for a pair exactly when
\* that pair's prediction succeeded with risk level HIGH or CRITICAL: once
\* for such a pair, never for LOW, MEDIUM, error or raising pairs.
C5_NotifyIffHighOrCritical ==
    job.name = "daily" =>
        \A p \in Pairs :
            Cardinality(PassNotices(p)) =
                IF job.outcome[p] \in {"HIGH", "CRITICAL"} THEN 1 ELSE 0

\* C5 witness: a finished pass with a HIGH pair that was announced and a
\* MEDIUM pair that was not.
C5_Witness ==
    /\ job.name = "daily" /\ job.pc = "done"
    /\ \E p, q \in Pairs :
          /\ job.outcome[p] = "HIGH" /\ PassNotices(p) # {}
          /\ job.outcome[q] = "MEDIUM" /\ PassNotices(q) = {}

\* C6: when the loop of a daily pass has ended, the pass has created exactly
\* one alert for every pair with at least 10 rows whose prediction succeeded
\* and none for any other pair; pairs below 10 rows were not predicted at all.
C6_OneAlertPerSuccessfulPair ==
    (job.name = "daily" /\ job.pc = "loop" /\ job.todo = <<>>) =>
        \A p \in Pairs :
            /\ store[p].total >= 10 => job.outcome[p] # "none"
            /\ store[p].total < 10 => job.outcome[p] = "none"
            /\ Cardinality(PassRows(session, p)) =
                   IF store[p].total >= 10 /\ job.outcome[p] \in Risks THEN 1 ELSE 0

\* C6 witness: the end of a loop over a table with a pair of 9 rows (no
\* alert), and a pair of 10 rows, only one of them inside the window, that
\* got its alert.
C6_Witness ==
    /\ job.name = "daily" /\ job.pc = "loop" /\ job.todo = <<>>
    /\ \E p, q \in Pairs :
          /\ store[p].total = 9 /\ PassRows(session, p) = {}
          /\ store[q].total = 10 /\ store[q].active = 1 /\ PassRows(session, q) # {}

(***************************************************************************)
(* The BackgroundScheduler of OutbreakScheduler and its cron triggers      *)
(***************************************************************************)
\* Calendar fields of tick t; tick 0 is Monday 00:00, day_of_week 0 is Monday.
Minute(t) == (t % TicksPerHour) * (60 \div TicksPerHour)
Hour(t) == (t \div TicksPerHour) % 24
DayOfWeek(t) == (t \div (24 * TicksPerHour)) % 7

\* mutant: the daily job is scheduled at 02:00
DailyTrigger_at2 == [day_of_week |-> 0..6, hour |-> {2}, minute |-> {0}]

\* CronTrigger(hour=6, minute=0): fields left out above `hour` match any value.
DailyTrigger == [day_of_week |-> 0..6, hour |-> {6}, minute |-> {0}]

\* CronTrigger(day_of_week='sun', hour=2, minute=0)
WeeklyTrigger == [day_of_week |-> {6}, hour |-> {2}, minute |-> {0}]

\* CronTrigger(minute=0)
HourlyTrigger == [day_of_week |-> 0..6, hour |-> 0..23, minute |-> {0}]

Triggers ==
    [daily_predictions |-> DailyTrigger, weekly_retraining |-> WeeklyTrigger,
     hourly_critical_check |-> HourlyTrigger]

JobIds == {"daily_predictions", "weekly_retraining", "hourly_critical_check"}

\* A cron trigger fires at the instants whose every field is among its values.
Fires(trigger, t) ==
    /\ DayOfWeek(t) \in trigger.day_of_week
    /\ Hour(t) \in trigger.hour
    /\ Minute(t) \in trigger.minute

\* OutbreakScheduler.init_app: add_job of the three jobs (replace_existing).
InitApp ==
    /\ sched' = [sched EXCEPT !.jobs = JobIds]
    /\ UNCHANGED <<store, preds, last, files, alerts, session, nextId, notified, log, job,
                   now, eval, threads>>

\* OutbreakScheduler.start
Start ==
    /\ ~sched.running
    /\ sched' = [sched EXCEPT !.running = TRUE]
    /\ UNCHANGED <<store, preds, last, files, alerts, session, nextId, notified, log, job,
                   now, eval, threads>>

\* OutbreakScheduler.shutdown
Shutdown ==
    /\ sched.running
    /\ sched' = [sched EXCEPT !.running = FALSE, !.due = {}]
    /\ UNCHANGED <<store, preds, last, files, alerts, session, nextId, notified, log, job,
                   now, eval, threads>>

\* init_scheduler(app), called by create_app: OutbreakScheduler(app), then
\* scheduler.start(); the jobs registered are those of the new object.
InitScheduler ==
    /\ sched.via = ""
    /\ sched' = [running |-> TRUE, jobs |-> {}, due |-> {}, via |-> "init_scheduler"]
    /\ UNCHANGED <<store, preds, last, files, alerts, session, nextId, notified, log, job,
                   now, eval, threads>>

\* Time advances by one tick; a running scheduler submits the registered jobs
\* whose trigger fires at the new instant.
Tick(limit) ==
    /\ now < limit
    /\ now' = now + 1
    /\ sched' = [sched EXCEPT !.due = IF sched.running
                                      THEN {j \in sched.jobs : Fires(Triggers[j], now + 1)}
                                      ELSE {}]
    /\ UNCHANGED <<store, preds, last, files, alerts, session, nextId, notified, log, job,
                   eval, threads>>

WeekTicks == 7 * 24 * TicksPerHour

AllRetrainable == [p \in Pairs |-> [total |-> RetrainMinCases, active |-> MinRows]]

InitSched == InitOver({AllRetrainable})

NextSched ==
    \/ InitApp
    \/ Start
    \/ Shutdown
    \/ InitScheduler
    \/ Tick(MaxWeeks * WeekTicks)

SpecSched == InitSched /\ [][NextSched]_vars

\* C7 (as stated): no two of the three triggers fire at the same instant.
C7_NoTwoTriggersTogether == Cardinality(sched.due) <= 1

\* C7 (amended): the daily and the weekly trigger never fire at the same
\* instant, and whenever one of them fires the hourly trigger fires with it.
C7_DailyWeeklyApartHourlyWithBoth ==
    /\ ~({"daily_predictions", "weekly_retraining"} \subseteq sched.due)
    /\ (sched.due \cap {"daily_predictions", "weekly_retraining"} # {}
            => "hourly_critical_check" \in sched.due)

\* C7 witness: Sunday 02:00 on a running scheduler with the jobs registered;
\* the weekly and the hourly job are due together.
C7_Witness ==
    /\ sched.running /\ DayOfWeek(now) = 6 /\ Hour(now) = 2 /\ Minute(now) = 0
    /\ sched.due = {"weekly_retraining", "hourly_critical_check"}

\* C8: on the scheduler started through init_scheduler, every tick to 06:00
\* fires run_daily_predictions, every tick to Sunday 02:00 fires
\* retrain_models and every tick to a full hour fires check_critical_alerts.
C8_InitSchedulerRunsJobs ==
    [][(sched.via = "init_scheduler" /\ sched.running /\ sched'.running /\ now' = now + 1) =>
          /\ (Hour(now') = 6 /\ Minute(now') = 0) => "daily_predictions" \in sched'.due
          /\ (DayOfWeek(now') = 6 /\ Hour(now') = 2 /\ Minute(now') = 0)
                 => "weekly_retraining" \in sched'.due
          /\ Minute(now') = 0 => "hourly_critical_check" \in sched'.due]_vars

(***************************************************************************)
(* The alert table: predict_outbreak_api, mark_alert_action_taken and      *)
(* OutbreakScheduler.check_critical_alerts                                 *)
(***************************************************************************)
\* send_outbreak_notifications (outbreak_routes.py): builds the message, then
\* OutbreakNotification(type=, message=, disease=, location=, timestamp=); the
\* model has none of type, disease, location, timestamp, so the constructor
\* raises TypeError.  TRUE when the call raises.
SendOutbreakNotificationsRaises ==
    {"type", "message", "disease", "location", "timestamp"}
        \ {"id", "alert_id", "recipient_type", "recipient", "message", "sent_at",
           "delivered", "read", "alert"} # {}

\* predict_outbreak_api: the response status and the table after the request.
PredictApi(p, in, cfail) ==
    /\ nextId <= MaxAlerts
    /\ LET r == PredictOutbreak(preds["routes"], store, p, in)
           row == NewAlert(nextId, p, r.result, now)
           ok == ~r.raised /\ r.result.error = ""
           status == IF r.raised THEN 500
                     ELSE IF r.result.error # "" THEN 400
                     ELSE IF cfail THEN 500
                     ELSE IF r.result.risk_level \in {"HIGH", "CRITICAL"}
                             /\ SendOutbreakNotificationsRaises THEN 500
                     ELSE 200
       IN  /\ preds' = [preds EXCEPT !["routes"] = r.pred]
           /\ alerts' = IF ok THEN Commit(alerts, <<row>>, cfail) ELSE alerts
           /\ nextId' = IF ok THEN nextId + 1 ELSE nextId
           /\ last' = [called |-> TRUE, odd |-> FALSE, inst |-> "predict_outbreak_api",
                       pair |-> p,
                       rows |-> store[p].total,
                       raised |-> FALSE, trained |-> r.trained, status |-> status,
                       result |-> IF status = 500 THEN ErrorResult("raised") ELSE r.result]
    /\ UNCHANGED <<store, files, session, notified, log, job, now, sched, eval, threads>>

\* mutant: marking an alert that is already marked clears the mark
MarkAlertActionTaken_toggle(alert_id, notes) ==
    /\ alerts' = [i \in DOMAIN alerts |->
                     IF alerts[i].id = alert_id
                     THEN [alerts[i] EXCEPT !.action_taken = ~@]
                     ELSE alerts[i]]
    /\ last' = [NoCall EXCEPT !.called = TRUE, !.inst = "mark_alert_action_taken",
                              !.status = 1]
    /\ UNCHANGED <<store, preds, files, session, nextId, notified, log, job, now, sched,
                   eval, threads>>

\* mark_alert_action_taken (app.py): True when the alert exists, else False.
MarkAlertActionTaken(alert_id, notes) ==
    /\ alerts' = [i \in DOMAIN alerts |->
                     IF alerts[i].id = alert_id
                     THEN [alerts[i] EXCEPT !.action_taken = TRUE,
                                            !.action_notes = IF notes # "" THEN notes ELSE @]
                     ELSE alerts[i]]
    /\ last' = [called |-> TRUE, odd |-> FALSE, inst |-> "mark_alert_action_taken",
                pair |-> NoPair,
                rows |-> 0,
                raised |-> FALSE, trained |-> FALSE,
                status |-> IF \E i \in DOMAIN alerts : alerts[i].id = alert_id THEN 1 ELSE 0,
                result |-> ErrorResult("")]
    /\ UNCHANGED <<store, preds, files, session, nextId, notified, log, job, now, sched,
                   eval, threads>>

\* mutant: alerts already acted on are announced again
SweepMatches_ignoresAction(a, t) ==
    a.timestamp >= t - TicksPerHour /\ a.risk_level = "CRITICAL"

\* lines 198-204: timestamp >= now - 1 hour, risk_level CRITICAL, action_taken False
SweepMatches(a, t) ==
    /\ a.timestamp >= t - TicksPerHour
    /\ a.risk_level = "CRITICAL"
    /\ a.action_taken = FALSE

IsSweepMatch(a) == SweepMatches(a, now)

\* check_critical_alerts: one send_alert_notification per matching alert; a
\* raising query is logged by the handler.
CheckCriticalAlerts(qfail) ==
    /\ job.pc = "idle"
    /\ job.run < MaxRuns
    /\ job' = [Idle(job.run + 1) EXCEPT !.name = "sweep", !.pc = "done"]
    /\ IF qfail
       THEN /\ log' = Append(log, [kind |-> "sweep", run |-> job.run + 1, pair |-> NoPair])
            /\ UNCHANGED notified
       ELSE /\ LET critical_alerts == SelectSeq(alerts, IsSweepMatch) IN
               notified' = notified \o
                   [i \in DOMAIN critical_alerts |->
                       [by |-> "sweep", run |-> job.run + 1,
                        pair |-> <<critical_alerts[i].disease, critical_alerts[i].location>>,
                        risk_level |-> critical_alerts[i].risk_level]]
            /\ UNCHANGED log
    /\ UNCHANGED <<store, preds, last, files, alerts, session, nextId, now, sched, eval,
                   threads>>

\* What the calls of the predict API read.
ApiInputs == FlatInputs({"none"}, {0})

InitSweep == InitOver({AllRetrainable})

NextSweep ==
    \/ \E p \in Pairs, in \in ApiInputs, cfail \in BOOLEAN : PredictApi(p, in, cfail)
    \/ \E id \in 1..(MaxAlerts + 1), notes \in {"", "contained"} : MarkAlertActionTaken(id, notes)
    \/ \E qfail \in BOOLEAN : CheckCriticalAlerts(qfail)
    \/ JobReturn
    \/ Tick(MaxNow)

SpecSweep == InitSweep /\ [][NextSweep]_vars

\* The notifications that sweep number `run` dispatched for pair p.
SweepNotices(sent, run, p) ==
    {i \in DOMAIN sent : sent[i].by = "sweep" /\ sent[i].run = run /\ sent[i].pair = p}

\* The alerts of pair p that are CRITICAL, not acted on and at most one hour old.
OpenCritical(p) ==
    {i \in DOMAIN alerts : /\ alerts[i].disease = p[1] /\ alerts[i].location = p[2]
                           /\ alerts[i].risk_level = "CRITICAL"
                           /\ ~alerts[i].action_taken
                           /\ now - alerts[i].timestamp <= TicksPerHour}

\* C9: a sweep leaves the alert table unchanged and, unless its query
\* raised, dispatches one notification for each alert that is at most one
\* hour old, CRITICAL and not acted on, and none for any other alert.
C9_SweepAnnouncesOpenCritical ==
    [][(job'.name = "sweep" /\ job'.run = job.run + 1) =>
          /\ alerts' = alerts
          /\ log' = log =>
                \A p \in Pairs :
                    Cardinality(SweepNotices(notified', job'.run, p))
                        = Cardinality(OpenCritical(p))]_vars

\* C9 witness: a sweep has run over a table holding a fresh CRITICAL alert
\* not acted on, which it announced, and another CRITICAL alert that is
\* older than an hour or acted on, which it did not announce.
C9_Witness ==
    /\ job.name = "sweep" /\ job.pc = "done"
    /\ Len(alerts) = 2
    /\ \A i \in DOMAIN alerts : alerts[i].risk_level = "CRITICAL"
    /\ IsSweepMatch(alerts[2]) /\ ~IsSweepMatch(alerts[1])
    /\ Cardinality({i \in DOMAIN notified : notified[i].by = "sweep"
                                             /\ notified[i].run = job.run}) = 1

(***************************************************************************)
(* OutbreakScheduler.retrain_models and OutbreakPredictor.save_model       *)
(***************************************************************************)
\* mutant: the bundle is named after the disease alone
ModelPath_diseaseOnly(p) == "models/outbreak_" \o p[1] \o ".pkl"

\* line 175: f"models/outbreak_{disease}_{location}.pkl"
ModelPath(p) == "models/outbreak_" \o p[1] \o "_" \o p[2] \o ".pkl"

\* What open(filepath, 'wb') leaves behind when pickle.dump raises.
TruncatedBundle == [model |-> NoModel, scaler |-> NoPair, intact |-> FALSE]

\* save_model: [files, ok, raised].  wfault "open" is an exception of makedirs
\* or open, wfault "dump" one of pickle.dump after the file was truncated.
SaveModel(pr, fs, filepath, wfault) ==
    IF ~pr.is_trained THEN [files |-> fs, ok |-> FALSE, raised |-> FALSE]
    ELSE IF wfault = "open" THEN [files |-> fs, ok |-> FALSE, raised |-> TRUE]
    ELSE IF wfault = "dump"
    THEN [files |-> (filepath :> TruncatedBundle) @@ fs, ok |-> FALSE, raised |-> TRUE]
    ELSE [files |-> (filepath :> [model |-> pr.model, scaler |-> pr.scaler,
                                  intact |-> TRUE]) @@ fs,
          ok |-> TRUE, raised |-> FALSE]

\* having(func.count(Predictions.id) >= 30)
RetrainQualifies(pf) == pf.total >= RetrainMinCases

\* lines 181-183: except ... continue
AfterTrainError(todo) == Tail(todo)

\* lines 157-166: the grouped query; when it raises, the outer handler logs.
RetrainBegin(qfail, order) ==
    /\ job.pc = "idle"
    /\ job.run < MaxRuns
    /\ IF qfail
       THEN /\ job' = [Idle(job.run + 1) EXCEPT !.name = "retrain", !.pc = "done"]
            /\ log' = Append(log, [kind |-> "retrain", run |-> job.run + 1, pair |-> NoPair])
       ELSE /\ job' = [Idle(job.run + 1) EXCEPT !.name = "retrain", !.pc = "loop",
                                               !.combinations = order, !.todo = order]
            /\ UNCHANGED log
    /\ UNCHANGED <<store, preds, last, files, alerts, session, nextId, notified, now,
                   sched, eval, threads>>

\* mutant: the scheduler's own predictor takes over the retrained model
AfterRetrain_adopted(ps, trained) == [ps EXCEPT !["scheduler"] = trained]

\* lines 170-176: `predictor` is a local of the loop body; self.predictor
\* and the routes' predictor are not assigned.
AfterRetrain(ps, trained) == ps

\* lines 168-183: one iteration: a new OutbreakPredictor, train_model, and
\* save_model to the pair's path when training succeeded.
RetrainPair(fault, wfault) ==
    /\ job.name = "retrain" /\ job.pc = "loop" /\ job.todo # <<>>
    /\ LET p == Head(job.todo)
           t == TrainModel(NewPredictor, store, p, Lookback, fault)
           s == SaveModel(t.pred, files, ModelPath(p), wfault)
       IN  IF t.raised \/ (t.success /\ s.raised)
           THEN /\ log' = Append(log, [kind |-> "train", run |-> job.run, pair |-> p])
                /\ files' = IF t.raised THEN files ELSE s.files
                /\ job' = [job EXCEPT !.todo = AfterTrainError(job.todo),
                                      !.outcome[p] = "raised"]
           ELSE IF ~t.success
           THEN /\ job' = [job EXCEPT !.todo = Tail(job.todo), !.outcome[p] = "untrained"]
                /\ UNCHANGED <<log, files>>
           ELSE /\ files' = s.files
                /\ job' = [job EXCEPT !.todo = Tail(job.todo), !.outcome[p] = "trained"]
                /\ UNCHANGED log
    /\ preds' = AfterRetrain(preds, TrainModel(NewPredictor, store, Head(job.todo), Lookback,
                                               fault).pred)
    /\ UNCHANGED <<store, last, alerts, session, nextId, notified, now, sched, eval, threads>>

\* line 185: the loop has ended.
RetrainEnd ==
    /\ job.name = "retrain" /\ job.pc = "loop" /\ job.todo = <<>>
    /\ job' = [job EXCEPT !.pc = "done", !.committed = TRUE]
    /\ UNCHANGED <<store, preds, last, files, alerts, session, nextId, notified, log, now,
                   sched, eval, threads>>

\* Tables of the weekly job: pairs below and at its row threshold.
RetrainProfiles ==
    {pf \in Profiles : pf.total >= DailyMinCases /\ pf.active # MinRows - 1}

InitRetrain == InitOver([Pairs -> RetrainProfiles])

NextRetrain ==
    \/ \E qfail \in BOOLEAN, order \in Orders({p \in Pairs : RetrainQualifies(store[p])}) :
          RetrainBegin(qfail, order)
    \/ \E fault \in {"none", "fetch", "fit"}, wfault \in {"none", "open", "dump"} :
          RetrainPair(fault, wfault)
    \/ RetrainEnd
    \/ JobReturn

SpecRetrain == InitRetrain /\ [][NextRetrain]_vars

\* The error lines the running retraining logged for pair p.
TrainErrors(p) ==
    {i \in DOMAIN log : log[i] = [kind |-> "train", run |-> job.run, pair |-> p]}

SeriesDays == 2        \* the `days` argument of the calls explored
MaxSeriesRows == 3     \* Predictions rows of the pair

TicksPerDay == 24 * TicksPerHour

\* db.func.date(Predictions.timestamp): the calendar day of an instant.
DateOf(t) == t \div TicksPerDay

\* pd.to_datetime(df['date']): a calendar day becomes its midnight instant.
ToDatetime(d) == d * TicksPerDay

\* lines 42-50: the grouped query over the rows (timestamps, in id order)
\* with start_date <= timestamp <= end_date: calendar day -> count.
CasesQuery(rows, start_date, end_date) ==
    LET hit == {i \in DOMAIN rows : rows[i] >= start_date /\ rows[i] <= end_date}
    IN  [d \in {DateOf(rows[i]) : i \in hit} |->
            Cardinality({i \in hit : DateOf(rows[i]) = d})]

\* pd.date_range(start=start_date, end=end_date, freq='D'): start_date and
\* every whole day after it up to end_date; the time of day is kept.
DateRange(start_date, end_date) ==
    [k \in 1..((end_date - start_date) \div TicksPerDay + 1) |->
        start_date + (k - 1) * TicksPerDay]

\* mutant: an inner merge keeps only the dates present in the query result
Merge_inner(range, q) ==
    LET kept == SelectSeq(range, LAMBDA t : \E d \in DOMAIN q : ToDatetime(d) = t)
    IN  [k \in DOMAIN kept |->
            [date |-> kept[k],
             cases |-> q[CHOOSE d \in DOMAIN q : ToDatetime(d) = kept[k]]]]

\* lines 60-63: df_complete.merge(df, on='date', how='left').fillna(0), then
\* astype(int).  A row of the range takes the count of the query row whose
\* datetime equals it, and 0 when there is none.
Merge(range, q) ==
    [k \in DOMAIN range |->
        [date |-> range[k],
         cases |-> IF \E d \in DOMAIN q : ToDatetime(d) = range[k]
                   THEN q[CHOOSE d \in DOMAIN q : ToDatetime(d) = range[k]]
                   ELSE 0]]

\* fetch_historical_data, with end_date the value datetime.now() returned.
FetchHistoricalDataFrame(rows, end_date, days) ==
    LET start_date == end_date - days * TicksPerDay
        q == CasesQuery(rows, start_date, end_date)
    IN  IF DOMAIN q = {}
        THEN [none |-> TRUE, df |-> <<>>]
        ELSE [none |-> FALSE, df |-> Merge(DateRange(start_date, end_date), q)]

\* The day on which the explored calls are made.
SeriesToday == SeriesDays + 1

\* Instants of the calls: midnight, just after it, and the end of the day.
SeriesNows == {ToDatetime(SeriesToday) + tod : tod \in {0, 1, TicksPerDay - 1}}

\* Timestamps of the rows: the day before the window, the first day of the
\* window (at and after midnight), the eve of the call and the day of the call.
SeriesStamps ==
    {ToDatetime(0) + 1, ToDatetime(1), ToDatetime(1) + 1,
     ToDatetime(SeriesToday) - 1, ToDatetime(SeriesToday), ToDatetime(SeriesToday) + 1}

SeriesTables == UNION {[1..n -> SeriesStamps] : n \in 0..MaxSeriesRows}

InitSeries ==
    InitWith({AllRetrainable},
             [fn : {"fetch_historical_data"},
              args : [rows : SeriesTables, end_date : SeriesNows, days : {SeriesDays}],
              done : {FALSE}, value : {<<>>}])

\* One call of fetch_historical_data.
EvalFetch ==
    /\ eval.fn = "fetch_historical_data" /\ ~eval.done
    /\ eval' = [eval EXCEPT !.done = TRUE,
                            !.value = FetchHistoricalDataFrame(eval.args.rows,
                                          eval.args.end_date, eval.args.days)]
    /\ UNCHANGED <<store, preds, last, files, alerts, session, nextId, notified, log, job,
                   now, sched, threads>>

NextSeries == EvalFetch

SpecSeries == InitSeries /\ [][NextSeries]_vars

\* A series was built by the call under evaluation.
SeriesBuilt == eval.fn = "fetch_historical_data" /\ eval.done /\ ~eval.value.none

\* C11: every series built has one row per calendar day from the day of
\* start to the day of end, days + 1 rows in all, with strictly increasing
\* dates one day apart, no date twice, and no negative count.
C11_OneRowPerDay ==
    SeriesBuilt =>
        LET df == eval.value.df
            first == DateOf(eval.args.end_date) - eval.args.days
        IN  /\ Len(df) = eval.args.days + 1
            /\ \A k \in DOMAIN df : DateOf(df[k].date) = first + k - 1
            /\ \A k \in DOMAIN df : df[k].cases >= 0
            /\ \A j, k \in DOMAIN df : j < k => df[j].date < df[k].date
            /\ \A k \in DOMAIN df : k > 1 => df[k].date - df[k - 1].date = TicksPerDay

\* C11 witness: a series built at a time other than midnight from rows on
\* two different days of the window.
C11_Witness ==
    /\ SeriesBuilt
    /\ eval.args.end_date # ToDatetime(DateOf(eval.args.end_date))
    /\ Len(eval.value.df) = SeriesDays + 1
    /\ \E i, j \in DOMAIN eval.args.rows :
          /\ DateOf(eval.args.rows[i]) # DateOf(eval.args.rows[j])
          /\ eval.args.rows[i] >= eval.args.end_date - SeriesDays * TicksPerDay
          /\ eval.args.rows[j] <= eval.args.end_date

\* C12: in every series built, the count of each calendar day is the number
\* of rows of the pair whose timestamp falls on that day, at whatever time of
\* day the series is built.
C12_CountsAreDailyCases ==
    SeriesBuilt =>
        \A k \in DOMAIN eval.value.df :
            eval.value.df[k].cases =
                Cardinality({i \in DOMAIN eval.args.rows :
                                /\ eval.args.rows[i] <= eval.args.end_date
                                /\ DateOf(eval.args.rows[i]) = DateOf(eval.value.df[k].date)})

(***************************************************************************)
(* _assess_risk and _calculate_confidence evaluated on their own           *)
(***************************************************************************)
MaxRiskArg == 6        \* largest forecast and mean handed to _assess_risk
MaxRiskStd == 3        \* largest std handed to _assess_risk
MaxStdOver == 2        \* how far recent_std goes above the noise threshold

RiskArgs ==
    [predicted : 0..MaxRiskArg, mean : 0..MaxRiskArg, std : 0..MaxRiskStd,
     recent_max : {0, MaxRiskArg}, is_increasing : BOOLEAN]

InitRisk ==
    InitWith({AllRetrainable},
             [fn : {"_assess_risk"}, args : RiskArgs, done : {FALSE}, value : {<<>>}])

\* One call of _assess_risk: whether it raised, the z-score it computed and
\* the level it returned.
EvalAssessRisk ==
    /\ eval.fn = "_assess_risk" /\ ~eval.done
    /\ LET a == eval.args
           z == ZScore(a.predicted, a.mean, a.std)
       IN  eval' = [eval EXCEPT
                       !.done = TRUE,
                       !.value = [raised |-> z.raised, z_score |-> z,
                                  level |-> IF z.raised THEN ""
                                            ELSE AssessRisk(a.predicted, a.mean, a.std,
                                                            a.recent_max, a.is_increasing)]]
    /\ UNCHANGED <<store, preds, last, files, alerts, session, nextId, notified, log, job,
                   now, sched, threads>>

NextRisk == EvalAssessRisk

SpecRisk == InitRisk /\ [][NextRisk]_vars

RiskAssessed == eval.fn = "_assess_risk" /\ eval.done

\* z > num/den for the z of the risk table: (forecast - mean)/std, and 0 when std = 0.
TableZAbove(a, num, den) ==
    IF a.std = 0 THEN 0 > num ELSE den * (a.predicted - a.mean) > num * a.std

\* The level of the ordered risk table, first match wins.
TableLevel(a) ==
    CASE a.predicted > a.mean + 2 * a.std \/ TableZAbove(a, 2, 1) -> "CRITICAL"
      [] ~(a.predicted > a.mean + 2 * a.std \/ TableZAbove(a, 2, 1))
         /\ (a.predicted > a.mean + a.std \/ (TableZAbove(a, 1, 1) /\ a.is_increasing))
           -> "HIGH"
      [] ~(a.predicted > a.mean + 2 * a.std \/ TableZAbove(a, 2, 1))
         /\ ~(a.predicted > a.mean + a.std \/ (TableZAbove(a, 1, 1) /\ a.is_increasing))
         /\ (a.predicted > a.mean \/ (TableZAbove(a, 1, 2) /\ a.is_increasing))
           -> "MEDIUM"
      [] OTHER -> "LOW"

\* C13: the level returned is the one of the ordered table (CRITICAL, then
\* HIGH, then MEDIUM, else LOW), and it is one of the four levels.
C13_RiskFollowsTable ==
    RiskAssessed =>
        /\ ~eval.value.raised
        /\ eval.value.level = TableLevel(eval.args)
        /\ eval.value.level \in Risks

\* C13 witness: a forecast above mean + std but not above mean + 2*std was
\* assessed HIGH.
C13_Witness ==
    /\ RiskAssessed /\ eval.value.level = "HIGH"
    /\ eval.args.std > 0
    /\ eval.args.predicted > eval.args.mean + eval.args.std
    /\ eval.args.predicted <= eval.args.mean + 2 * eval.args.std

\* C14: with std = 0 the assessment does not raise, its z-score is 0 and it
\* returns one of the four levels, whatever the forecast and the mean.
C14_ZeroStdNoDivision ==
    (RiskAssessed /\ eval.args.std = 0) =>
        /\ ~eval.value.raised
        /\ eval.value.z_score.num = 0
        /\ eval.value.level \in Risks

\* C14 witness: std = 0 and a forecast above the mean, assessed CRITICAL.
C14_Witness ==
    /\ RiskAssessed /\ eval.args.std = 0
    /\ eval.args.predicted > eval.args.mean
    /\ eval.value.level = "CRITICAL"

\* The level by the plain thresholds on forecast, mean and std.
ThresholdLevel(predicted, mean, std) ==
    IF predicted > mean + 2 * std THEN "CRITICAL"
    ELSE IF predicted > mean + std THEN "HIGH"
    ELSE IF predicted > mean THEN "MEDIUM"
    ELSE "LOW"

\* C24: the level returned is the one the plain thresholds give for the
\* forecast, the mean and the std, and _assess_risk returns that same level
\* for the other value of is_increasing and for every other recent_max.
C24_RiskIgnoresTrendAndMax ==
    RiskAssessed =>
        LET a == eval.args IN
        /\ eval.value.level = ThresholdLevel(a.predicted, a.mean, a.std)
        /\ \A b \in RiskArgs :
              (b.predicted = a.predicted /\ b.mean = a.mean /\ b.std = a.std) =>
                  AssessRisk(b.predicted, b.mean, b.std, b.recent_max, b.is_increasing)
                      = eval.value.level

\* C24 witness: an increasing series and a forecast above the recent maximum,
\* with a z-score above 0.5 and a forecast not above the mean plus the std,
\* assessed MEDIUM.
C24_Witness ==
    /\ RiskAssessed /\ eval.args.is_increasing
    /\ eval.args.predicted > eval.args.recent_max
    /\ eval.args.std > 0
    /\ 2 * (eval.args.predicted - eval.args.mean) > eval.args.std
    /\ eval.args.predicted <= eval.args.mean + eval.args.std
    /\ eval.value.level = "MEDIUM"

\* Series lengths around the two thresholds, and the length of a fetched frame.
DataPoints == {0, MinRows - 1, MinRows, MediumRows - 1, MediumRows, Lookback + 1}

InitConfidence ==
    InitWith({AllRetrainable},
             [fn : {"_calculate_confidence"},
              args : [data_points : DataPoints, recent_std : 0..(NoisyStd + MaxStdOver)],
              done : {FALSE}, value : {<<>>}])

\* One call of _calculate_confidence.
EvalCalculateConfidence ==
    /\ eval.fn = "_calculate_confidence" /\ ~eval.done
    /\ eval' = [eval EXCEPT !.done = TRUE,
                            !.value = CalculateConfidence(eval.args.data_points,
                                                          eval.args.recent_std)]
    /\ UNCHANGED <<store, preds, last, files, alerts, session, nextId, notified, log, job,
                   now, sched, threads>>

NextConfidence == EvalCalculateConfidence

SpecConfidence == InitConfidence /\ [][NextConfidence]_vars

ConfidenceGiven == eval.fn = "_calculate_confidence" /\ eval.done

\* C15: the label is LOW below 30 data points; otherwise MEDIUM when there
\* are fewer than 60 points or the recent std exceeds 10; otherwise HIGH.
C15_ConfidenceLabel ==
    ConfidenceGiven =>
        LET n == eval.args.data_points
            sd == eval.args.recent_std
        IN  /\ n < 30 => eval.value = "LOW"
            /\ (n >= 30 /\ (n <= 59 \/ sd > 10)) => eval.value = "MEDIUM"
            /\ (n >= 60 /\ sd <= 10) => eval.value = "HIGH"

\* C15 witness: a short and noisy series was labelled LOW.
C15_Witness ==
    /\ ConfidenceGiven
    /\ eval.args.data_points < 30 /\ eval.args.recent_std > 10
    /\ eval.value = "LOW"

(***************************************************************************)
(* Repeated predict_outbreak calls on the routes' predictor, with the      *)
(* series of each pair held in the table between the calls                 *)
(***************************************************************************)
MaxNewCases == 1       \* Predictions rows a pair receives per behaviour

\* What a call reads from the series of a pair as long as no row is added.
SeriesReadings == {o \in Inputs({"none"}, Stds \ {0}) : o.gb = o.rf /\ o.incr}

\* A pair's rows together with what predict_outbreak reads from their series.
ReadProfiles ==
    [total : {RetrainMinCases}, active : {0, MinRows}, obs : SeriesReadings]

\* predict_outbreak on the rows the table holds for the pair.
PredictStored(p) == PredictCall(p, store[p].obs)

\* A new Predictions row of pair p is committed: its series changes.
RecordCase(p, obs) ==
    /\ store[p].total < RetrainMinCases + MaxNewCases
    /\ store' = [store EXCEPT ![p] = [total |-> @.total + 1,
                                      active |-> Max(1, @.active), obs |-> obs]]
    /\ UNCHANGED <<preds, last, files, alerts, session, nextId, notified, log, job, now,
                   sched, eval, threads>>

InitRepeat == InitOver([Pairs -> ReadProfiles])

NextRepeat ==
    \/ \E p \in Pairs : PredictStored(p)
    \/ \E p \in Pairs, obs \in SeriesReadings : RecordCase(p, obs)

SpecRepeat == InitRepeat /\ [][NextRepeat]_vars

\* C16: a predict_outbreak call that returned, followed at once by a call
\* for the same pair with no row added in between, yields the same risk
\* level and the same forecast; the second call fits no model and leaves the
\* predictor's model, scaler and flag as they were.
C16_RepeatedCallSameResult ==
    [][(/\ last.called /\ ~last.raised
        /\ last'.called /\ last'.odd # last.odd /\ last'.pair = last.pair
        /\ last.rows = store[last.pair].total
        /\ store' = store) =>
          /\ ~last'.raised
          /\ last'.result.risk_level = last.result.risk_level
          /\ last'.result.predicted_cases_7d = last.result.predicted_cases_7d
          /\ last'.result.error = last.result.error
          /\ ~last'.trained
          /\ preds' = preds]_vars

\* C16 witness: the latest call returned a risk level for its pair from the
\* model that an earlier call for the same pair had fitted, without fitting.
C16_Witness ==
    /\ last.called /\ ~last.raised /\ last.result.error = ""
    /\ ~last.trained
    /\ preds["routes"].is_trained
    /\ preds["routes"].model.rf = last.pair
    /\ last.result.risk_level \in Risks

(***************************************************************************)
(* Every operation on outbreak_alerts together: the daily pass, the        *)
(* predict API, mark_alert_action_taken and the hourly sweep               *)
(***************************************************************************)
\* Readings that make a prediction LOW and readings that make it CRITICAL.
AlertReadings == {o \in ApiInputs : o.gb = o.rf /\ ~o.incr}

InitAlerts == InitOver({AllRetrainable})

NextAlerts ==
    \/ \E order \in Orders({p \in Pairs : DailyQualifies(store[p])}) :
          DailyBegin(FALSE, order)
    \/ \E in \in AlertReadings : DailyPair(in)
    \/ \E cfail \in BOOLEAN : DailyCommit(cfail)
    \/ \E p \in Pairs, in \in AlertReadings, cfail \in BOOLEAN : PredictApi(p, in, cfail)
    \/ \E id \in 1..(MaxAlerts + 1), notes \in {"", "contained"} : MarkAlertActionTaken(id, notes)
    \/ CheckCriticalAlerts(FALSE)
    \/ JobReturn

SpecAlerts == InitAlerts /\ [][NextAlerts]_vars

\* The step is a call of mark_alert_action_taken.
MarkStep == last'.inst = "mark_alert_action_taken" /\ job' = job /\ nextId' = nextId

\* C17: no step removes an alert or changes anything of an existing alert
\* but action_taken and action_notes; action_taken never goes back from true
\* to false; only mark_alert_action_taken changes an alert, and when it
\* returns false (unknown id) the table is unchanged.
C17_AlertsOnlyMarked ==
    [][/\ Len(alerts') >= Len(alerts)
       /\ \A i \in DOMAIN alerts :
             /\ alerts'[i] = [alerts[i] EXCEPT !.action_taken = alerts'[i].action_taken,
                                               !.action_notes = alerts'[i].action_notes]
             /\ alerts[i].action_taken => alerts'[i].action_taken
             /\ alerts'[i] # alerts[i] => (MarkStep /\ last'.status = 1
                                             /\ alerts'[i].action_taken)
       /\ (MarkStep /\ last'.status = 0) => alerts' = alerts]_vars

\* C17 witness: a table with an alert of the daily pass marked with notes
\* and an alert left open, after a call for an unknown id returned false.
C17_Witness ==
    /\ last.inst = "mark_alert_action_taken" /\ last.status = 0
    /\ job.name = "daily"
    /\ \E i, j \in DOMAIN alerts :
          /\ alerts[i].action_taken /\ alerts[i].action_notes = "contained"
          /\ ~alerts[j].action_taken

(***************************************************************************)
(* OutbreakPredictor.save_model and load_model on the routes' predictor    *)
(***************************************************************************)
\* mutant: the file is opened without the os.path.exists test
LoadModel_noExistsTest(pr, fs, filepath) ==
    IF filepath \notin DOMAIN fs THEN [pred |-> pr, ok |-> FALSE, raised |-> TRUE]
    ELSE LET data == fs[filepath] IN
         IF ~data.intact \/ "model" \notin DOMAIN data
         THEN [pred |-> pr, ok |-> FALSE, raised |-> TRUE]
         ELSE IF "scaler" \notin DOMAIN data
         THEN [pred |-> [pr EXCEPT !.model = data.model], ok |-> FALSE, raised |-> TRUE]
         ELSE [pred |-> [model |-> data.model, scaler |-> data.scaler, is_trained |-> TRUE],
               ok |-> TRUE, raised |-> FALSE]

\* load_model: [pred, ok, raised].  A blob is what pickle.load finds: a
\* truncated file makes it raise; of a pickled dict, data['model'] is assigned
\* before data['scaler'] is read, and is_trained is set last.
LoadModel(pr, fs, filepath) ==
    IF filepath \notin DOMAIN fs THEN [pred |-> pr, ok |-> FALSE, raised |-> FALSE]
    ELSE LET data == fs[filepath] IN
         IF ~data.intact THEN [pred |-> pr, ok |-> FALSE, raised |-> TRUE]
         ELSE IF "model" \notin DOMAIN data THEN [pred |-> pr, ok |-> FALSE, raised |-> TRUE]
         ELSE IF "scaler" \notin DOMAIN data
         THEN [pred |-> [pr EXCEPT !.model = data.model], ok |-> FALSE, raised |-> TRUE]
         ELSE [pred |-> [model |-> data.model, scaler |-> data.scaler, is_trained |-> TRUE],
               ok |-> TRUE, raised |-> FALSE]

\* What a path of the models directory may hold before the first call: the
\* bundle save_model wrote for the pair, a truncated file, or the pickle of a
\* dict that has a 'model' but no 'scaler'.
Blobs(p) ==
    {[model |-> [rf |-> p, gb |-> p], scaler |-> p, intact |-> TRUE],
     TruncatedBundle,
     [model |-> [rf |-> p, gb |-> p], intact |-> TRUE]}

RECURSIVE Disks(_)
\* Every models directory over a set of pairs: each path is missing or holds a blob.
Disks(S) ==
    IF S = {} THEN {<<>>}
    ELSE LET p == CHOOSE q \in S : TRUE
             rest == Disks(S \ {p})
         IN  rest \cup {(ModelPath(p) :> b) @@ d : b \in Blobs(p), d \in rest}

\* predictor.load_model(path of pair p)
LoadModelCall(p) ==
    LET r == LoadModel(preds["routes"], files, ModelPath(p)) IN
    /\ preds' = [preds EXCEPT !["routes"] = r.pred]
    /\ last' = [NoCall EXCEPT !.called = TRUE, !.odd = ~last.odd, !.inst = "load_model",
                              !.pair = p, !.raised = r.raised,
                              !.status = IF r.ok THEN 1 ELSE 0]
    /\ UNCHANGED <<store, files, alerts, session, nextId, notified, log, job, now, sched,
                   eval, threads>>

\* predictor.save_model(path of pair p)
SaveModelCall(p, wfault) ==
    LET r == SaveModel(preds["routes"], files, ModelPath(p), wfault) IN
    /\ files' = r.files
    /\ last' = [NoCall EXCEPT !.called = TRUE, !.odd = ~last.odd, !.inst = "save_model",
                              !.pair = p, !.raised = r.raised,
                              !.status = IF r.ok THEN 1 ELSE 0]
    /\ UNCHANGED <<store, preds, alerts, session, nextId, notified, log, job, now, sched,
                   eval, threads>>

InitBundle == InitFrom({AllRetrainable}, Disks(Pairs), {NoEval})

NextBundle ==
    \/ \E p \in Pairs, in \in AlertReadings : PredictCall(p, in)
    \/ \E p \in Pairs : LoadModelCall(p)
    \/ \E p \in Pairs, wfault \in {"none", "open", "dump"} : SaveModelCall(p, wfault)

SpecBundle == InitBundle /\ [][NextBundle]_vars

\* The step is a call of load_model, resp. of save_model.
LoadStep == last'.inst = "load_model" /\ last'.odd # last.odd
SaveStep == last'.inst = "save_model" /\ last'.odd # last.odd

\* C18: load_model on a path that holds no file returns false, raises
\* nothing and leaves model, scaler and is_trained (and the directory) as
\* they were.
C18_LoadMissingIsNoOp ==
    [][(LoadStep /\ ModelPath(last'.pair) \notin DOMAIN files) =>
          /\ ~last'.raised
          /\ last'.status = 0
          /\ preds' = preds
          /\ files' = files]_vars

\* C18 witness: a trained predictor was asked to load a missing file, got
\* false, and is still trained on its pair.
C18_Witness ==
    /\ last.inst = "load_model" /\ last.status = 0 /\ ~last.raised
    /\ ModelPath(last.pair) \notin DOMAIN files
    /\ preds["routes"].is_trained
    /\ preds["routes"].model.rf \in Pairs

\* C19: no call of load_model or save_model raises to its caller, and a call
\* that did not succeed leaves the predictor's model, scaler and flag as
\* they were.
C19_BundleErrorsAreAbsence ==
    [][(LoadStep \/ SaveStep) =>
          /\ ~last'.raised
          /\ last'.status = 0 => preds' = preds]_vars

(***************************************************************************)
(* get_outbreak_hotspots over the outcomes of its predict_outbreak calls   *)
(***************************************************************************)
MaxDiseases == 3       \* diseases recorded in the first location
MaxOtherDiseases == 2  \* diseases recorded in the second location

\* risk_scores.get(risk_level, 0), lines 241-248
RiskScore(risk_level) ==
    CASE risk_level = "CRITICAL" -> 4
      [] risk_level = "HIGH" -> 3
      [] risk_level = "MEDIUM" -> 2
      [] risk_level = "LOW" -> 1
      [] OTHER -> 0

\* mutant: every location is listed
IsHotspot_always(high_risk_count) == TRUE

\* line 263: if high_risk_count > 0
IsHotspot(high_risk_count) == high_risk_count > 0

RECURSIVE TotalRiskScore(_)
\* lines 233-261: the scores of the diseases whose prediction returned a
\* result without "error"; "error" stands for an error payload or an exception.
TotalRiskScore(outcomes) ==
    IF outcomes = <<>> THEN 0
    ELSE (IF Head(outcomes) = "error" THEN 0 ELSE RiskScore(Head(outcomes)))
         + TotalRiskScore(Tail(outcomes))

\* lines 251-252: the diseases counted as high risk
HighRiskCount(outcomes) ==
    Cardinality({i \in DOMAIN outcomes : outcomes[i] \in {"HIGH", "CRITICAL"}})

RECURSIVE SortByScore(_)
\* hotspots.sort(key=risk_score, reverse=True): descending and stable.
SortByScore(s) ==
    IF s = <<>> THEN <<>>
    ELSE LET top == CHOOSE i \in DOMAIN s :
                        /\ \A j \in DOMAIN s : s[j].risk_score <= s[i].risk_score
                        /\ \A j \in 1..(i - 1) : s[j].risk_score < s[i].risk_score
         IN  <<s[top]>> \o SortByScore([k \in 1..(Len(s) - 1) |->
                                          IF k < top THEN s[k] ELSE s[k + 1]])

\* get_outbreak_hotspots: locations in the order of the distinct query, and
\* for each location the outcomes of the predictions of its diseases.
GetOutbreakHotspots(locations, outcomes) ==
    LET entry(l) == [location |-> l,
                     high_risk_diseases |-> HighRiskCount(outcomes[l]),
                     total_diseases |-> Len(outcomes[l]),
                     risk_score |-> TotalRiskScore(outcomes[l])]
        listed == SelectSeq(locations, LAMBDA l : IsHotspot(HighRiskCount(outcomes[l])))
    IN  SortByScore([k \in DOMAIN listed |-> entry(listed[k])])

DiseaseOutcomes == {"CRITICAL", "HIGH", "MEDIUM", "LOW", "error"}

OutcomeLists(n) == UNION {[1..k -> DiseaseOutcomes] : k \in 1..n}

HotspotArgs ==
    [locations : {<<"Nairobi", "Kisii">>, <<"Kisii", "Nairobi">>},
     outcomes : {[Nairobi |-> a, Kisii |-> b] :
                    a \in OutcomeLists(MaxDiseases), b \in OutcomeLists(MaxOtherDiseases)}]

InitHotspots ==
    InitWith({AllRetrainable},
             [fn : {"get_outbreak_hotspots"}, args : HotspotArgs, done : {FALSE},
              value : {<<>>}])

\* One request to /api/outbreak/hotspots.
EvalHotspots ==
    /\ eval.fn = "get_outbreak_hotspots" /\ ~eval.done
    /\ eval' = [eval EXCEPT !.done = TRUE,
                            !.value = GetOutbreakHotspots(eval.args.locations,
                                                          eval.args.outcomes)]
    /\ UNCHANGED <<store, preds, last, files, alerts, session, nextId, notified, log, job,
                   now, sched, threads>>

NextHotspots == EvalHotspots

SpecHotspots == InitHotspots /\ [][NextHotspots]_vars

HotspotsListed == eval.fn = "get_outbreak_hotspots" /\ eval.done

\* The locations of the request, and the risk levels returned for location l.
HotLocations == {eval.args.locations[i] : i \in DOMAIN eval.args.locations}
LevelsAt(l) == SelectSeq(eval.args.outcomes[l], LAMBDA o : o \in Risks)

RECURSIVE SumOfLevels(_)
\* CRITICAL=4, HIGH=3, MEDIUM=2, LOW=1, summed over a sequence of levels.
SumOfLevels(levels) ==
    IF levels = <<>> THEN 0
    ELSE (CASE Head(levels) = "CRITICAL" -> 4 [] Head(levels) = "HIGH" -> 3
            [] Head(levels) = "MEDIUM" -> 2 [] Head(levels) = "LOW" -> 1)
         + SumOfLevels(Tail(levels))

\* The list is in descending order of score.
RankedByScore(list) ==
    \A i, j \in DOMAIN list : i < j => list[i].risk_score >= list[j].risk_score

\* The entries of the list for location l.
EntriesOf(list, l) == {i \in DOMAIN list : list[i].location = l}

\* C20 (as stated): every location is given its score, the sum of the
\* values of its diseases' levels, and the locations are ranked by
\* descending score.
C20_EveryLocationScored ==
    HotspotsListed =>
        /\ \A l \in HotLocations :
              /\ Cardinality(EntriesOf(eval.value, l)) = 1
              /\ \A i \in EntriesOf(eval.value, l) :
                    eval.value[i].risk_score = SumOfLevels(LevelsAt(l))
        /\ RankedByScore(eval.value)

\* C20 (amended): the locations listed are exactly those with a disease at
\* HIGH or CRITICAL, each once with the sum of the values of its diseases'
\* levels as score, in descending order of score.
C20_HighRiskLocationsScored ==
    HotspotsListed =>
        /\ \A l \in HotLocations :
              /\ Cardinality(EntriesOf(eval.value, l)) =
                    IF \E i \in DOMAIN LevelsAt(l) : LevelsAt(l)[i] \in {"HIGH", "CRITICAL"}
                    THEN 1 ELSE 0
              /\ \A i \in EntriesOf(eval.value, l) :
                    eval.value[i].risk_score = SumOfLevels(LevelsAt(l))
        /\ RankedByScore(eval.value)

\* C20 witness: Nairobi with CRITICAL/HIGH/LOW is listed with score 8;
\* Kisii with MEDIUM/MEDIUM is not listed.
C20_Witness ==
    /\ HotspotsListed
    /\ eval.args.outcomes["Nairobi"] = <<"CRITICAL", "HIGH", "LOW">>
    /\ eval.args.outcomes["Kisii"] = <<"MEDIUM", "MEDIUM">>
    /\ Len(eval.value) = 1
    /\ eval.value[1].location = "Nairobi" /\ eval.value[1].risk_score = 8

(***************************************************************************)
(* engineer_features and prepare_training_data over one series             *)
(***************************************************************************)
FeatureDays == 16      \* rows of the series whose features are engineered
PatternDays == 5       \* days after which the counts of a series repeat

ShortWindow == 7       \* rolling(window=7)
LongWindow == 14       \* rolling(window=14)

\* A missing value (NaN) and a present one.
NaN == [nan |-> TRUE, num |-> 0, den |-> 1]
Val(num, den) == [nan |-> FALSE, num |-> num, den |-> den]

\* Series.fillna(0)
FillNa(x) == IF x.nan THEN Val(0, 1) ELSE x

\* mutant: the shift reads the row n places after row k
Shift_forward(s, k, n) == IF k + n \in DOMAIN s THEN Val(s[k + n], 1) ELSE NaN

\* Series.shift(n) at row k: the value n rows before (after, for n < 0).
Shift(s, k, n) == IF k - n \in DOMAIN s THEN Val(s[k - n], 1) ELSE NaN

\* The rows of rolling(window, min_periods=1) at row k.
Window(k, window) == Max(1, k - window + 1)..k

RECURSIVE SumOf(_, _)
SumOf(s, R) ==
    IF R = {} THEN 0
    ELSE LET i == CHOOSE j \in R : TRUE IN s[i] + SumOf(s, R \ {i})

\* rolling(...).mean() at row k, as the fraction sum / n.
RollingMean(s, k, window) ==
    Val(SumOf(s, Window(k, window)), Cardinality(Window(k, window)))

\* rolling(...).std() at row k, represented by its square, the sample
\* variance (n * sum(x^2) - sum(x)^2) / (n * (n - 1)); NaN on a single row.
RollingStd(s, k, window) ==
    LET R == Window(k, window)
        n == Cardinality(R)
        sq == [i \in DOMAIN s |-> s[i] * s[i]]
    IN  IF n < 2 THEN NaN
        ELSE Val(n * SumOf(sq, R) - SumOf(s, R) * SumOf(s, R), n * (n - 1))

RollingMin(s, k, window) == CHOOSE m \in {s[i] : i \in Window(k, window)} :
                                \A i \in Window(k, window) : m <= s[i]

RollingMax(s, k, window) == CHOOSE m \in {s[i] : i \in Window(k, window)} :
                                \A i \in Window(k, window) : m >= s[i]

\* Series.diff() at row k.
Diff(s, k) == IF k - 1 \in DOMAIN s THEN Val(s[k] - s[k - 1], 1) ELSE NaN

\* Series.pct_change() at row k: NaN on the first row and for 0/0, infinite
\* for x/0 with x # 0.
PctChange(s, k) ==
    IF k - 1 \notin DOMAIN s THEN NaN
    ELSE IF s[k - 1] = 0
    THEN (IF s[k] = 0 THEN NaN ELSE [nan |-> FALSE, num |-> s[k], den |-> 0])
    ELSE Val(s[k] - s[k - 1], s[k - 1])

\* .fillna(0), then .replace([inf, -inf], 0)
GrowthRate(s, k) ==
    LET g == FillNa(PctChange(s, k)) IN IF g.den = 0 THEN Val(0, 1) ELSE g

\* pandas dayofweek, Monday = 0, of an instant.
DayOfWeekOf(t) == DateOf(t) % 7

\* engineer_features: the frame with its engineered columns, row by row.
\* The three calendar columns day_of_month, week_of_year and month are
\* functions of the row's own date like day_of_week and are not carried.
EngineerFeatures(df) ==
    LET cases == [k \in DOMAIN df |-> df[k].cases]
        trend == [k \in DOMAIN df |-> FillNa(Diff(cases, k)).num]
    IN  [k \in DOMAIN df |->
            [date |-> df[k].date,
             cases |-> cases[k],
             day_of_week |-> DayOfWeekOf(df[k].date),
             is_weekend |-> IF DayOfWeekOf(df[k].date) \in {5, 6} THEN 1 ELSE 0,
             cases_7d_mean |-> RollingMean(cases, k, ShortWindow),
             cases_7d_std |-> FillNa(RollingStd(cases, k, ShortWindow)),
             cases_7d_min |-> RollingMin(cases, k, ShortWindow),
             cases_7d_max |-> RollingMax(cases, k, ShortWindow),
             cases_14d_mean |-> RollingMean(cases, k, LongWindow),
             cases_14d_std |-> FillNa(RollingStd(cases, k, LongWindow)),
             cases_lag_1 |-> FillNa(Shift(cases, k, 1)).num,
             cases_lag_3 |-> FillNa(Shift(cases, k, 3)).num,
             cases_lag_7 |-> FillNa(Shift(cases, k, 7)).num,
             cases_lag_14 |-> FillNa(Shift(cases, k, 14)).num,
             cases_trend |-> trend[k],
             cases_acceleration |-> FillNa(Diff(trend, k)).num,
             growth_rate |-> GrowthRate(cases, k),
             cumulative_cases |-> SumOf(cases, 1..k)]]

\* The columns of feature_columns carried by a row.
FeatureColumns ==
    {"day_of_week", "is_weekend", "cases_7d_mean", "cases_7d_std", "cases_7d_min",
     "cases_7d_max", "cases_14d_mean", "cases_14d_std", "cases_lag_1", "cases_lag_3",
     "cases_lag_7", "cases_lag_14", "cases_trend", "cases_acceleration", "growth_rate",
     "cumulative_cases"}

\* df[feature_columns] at one row.
FeatureVector(row) == [c \in FeatureColumns |-> row[c]]

\* prepare_training_data: target = cases.shift(-prediction_horizon), rows with
\* a NaN target dropped; X and y row by row.
PrepareTrainingData(fdf, prediction_horizon) ==
    LET cases == [k \in DOMAIN fdf |-> fdf[k].cases]
        clean == SelectSeq([k \in DOMAIN fdf |-> k],
                           LAMBDA k : ~Shift(cases, k, -prediction_horizon).nan)
    IN  [X |-> [i \in DOMAIN clean |-> FeatureVector(fdf[clean[i]])],
         y |-> [i \in DOMAIN clean |-> Shift(cases, clean[i], -prediction_horizon).num],
         rows |-> clean]

\* Counts of one day of a series, and the counts a day is changed to.
CaseCounts == {0, 2}
OtherCounts == {0, 1, 3}

\* The frame of a series of counts whose first row is day 0, taken at noon.
FrameOf(cases) ==
    [k \in DOMAIN cases |-> [date |-> ToDatetime(k - 1) + TicksPerDay \div 2,
                             cases |-> cases[k]]]

\* The series that repeat a pattern of counts.
PatternSeries ==
    {[k \in 1..FeatureDays |-> pat[((k - 1) % PatternDays) + 1]] :
        pat \in [1..PatternDays -> CaseCounts]}

\* Two series: `cases`, and the same with the count of one day changed.
FeatureArgs == [cases : PatternSeries, day : 1..FeatureDays, other : OtherCounts]

InitFeatures ==
    InitWith({AllRetrainable},
             [fn : {"engineer_features"}, args : FeatureArgs, done : {FALSE},
              value : {<<>>}])

\* engineer_features and prepare_training_data on both series.
EvalEngineerFeatures ==
    /\ eval.fn = "engineer_features" /\ ~eval.done
    /\ LET a == eval.args.cases
           b == [a EXCEPT ![eval.args.day] = eval.args.other]
           fa == EngineerFeatures(FrameOf(a))
           fb == EngineerFeatures(FrameOf(b))
       IN  eval' = [eval EXCEPT
                       !.done = TRUE,
                       !.value = [a |-> fa, b |-> fb,
                                  ta |-> PrepareTrainingData(fa, Horizon),
                                  tb |-> PrepareTrainingData(fb, Horizon)]]
    /\ UNCHANGED <<store, preds, last, files, alerts, session, nextId, notified, log, job,
                   now, sched, threads>>

NextFeatures == EvalEngineerFeatures

SpecFeatures == InitFeatures /\ [][NextFeatures]_vars

FeaturesEngineered == eval.fn = "engineer_features" /\ eval.done

\* The two series have the same counts on every day up to day d.
AgreeUpTo(d) == \A k \in 1..d : eval.value.a[k].cases = eval.value.b[k].cases

\* C21: for two series and every day d up to which they agree, the feature
\* vectors at d are identical; the target of a training row is the count
\* Horizon days later, and the rows without such a count are not trained on.
C21_NoLookAhead ==
    FeaturesEngineered =>
        /\ \A d \in 1..FeatureDays :
              AgreeUpTo(d) => FeatureVector(eval.value.a[d]) = FeatureVector(eval.value.b[d])
        /\ Len(eval.value.ta.y) = Max(0, FeatureDays - 7)
        /\ \A i \in DOMAIN eval.value.ta.y :
              /\ eval.value.ta.rows[i] = i
              /\ eval.value.ta.y[i] = eval.value.a[i + 7].cases
              /\ eval.value.ta.X[i] = FeatureVector(eval.value.a[i])

\* C21 witness: two series that differ only on the last day, after the
\* 14-day window has slid; the row 7 days before the last has identical
\* features and different targets in the two.
C21_Witness ==
    /\ FeaturesEngineered
    /\ eval.args.day = FeatureDays /\ FeatureDays > 14 + 1
    /\ AgreeUpTo(FeatureDays - 1) /\ ~AgreeUpTo(FeatureDays)
    /\ FeatureVector(eval.value.a[FeatureDays - 7]) = FeatureVector(eval.value.b[FeatureDays - 7])
    /\ eval.value.a[FeatureDays - 7].growth_rate.num # 0
    /\ eval.value.a[FeatureDays - 1].cases_lag_14 # 0
    /\ eval.value.a[FeatureDays - 1].cases_14d_mean # eval.value.a[FeatureDays - 2].cases_14d_mean
    /\ eval.value.ta.y[FeatureDays - 7] # eval.value.tb.y[FeatureDays - 7]

(***************************************************************************)
(* The ensemble forecast of predict_outbreak evaluated on its own          *)
(***************************************************************************)
MaxRegOut == 5         \* largest regressor output explored, in cases

\* Outputs of one regressor in 1/Scale cases, from -1 case to MaxRegOut cases.
RegOutputs == (-Scale)..(MaxRegOut * Scale)

InitForecast ==
    InitWith({AllRetrainable},
             [fn : {"ensemble"}, args : [rf_pred : RegOutputs, gb_pred : RegOutputs],
              done : {FALSE}, value : {<<>>}])

\* Lines 231-232 on the two outputs.
EvalEnsembleForecast ==
    /\ eval.fn = "ensemble" /\ ~eval.done
    /\ eval' = [eval EXCEPT !.done = TRUE,
                            !.value = EnsembleForecast(eval.args.rf_pred, eval.args.gb_pred)]
    /\ UNCHANGED <<store, preds, last, files, alerts, session, nextId, notified, log, job,
                   now, sched, threads>>

NextForecast == EvalEnsembleForecast

SpecForecast == InitForecast /\ [][NextForecast]_vars

ForecastMade == eval.fn = "ensemble" /\ eval.done

\* The integers nearest to num/den (den > 0): both neighbours on a tie.
Nearest(num, den) ==
    {v \in (num \div den)..((num \div den) + 1) :
        2 * (v * den - num) <= den /\ 2 * (num - v * den) <= den}

\* C22: the forecast is the average of the two outputs rounded to the nearest
\* integer and floored at 0 (4.6 gives 5), hence a non-negative integer.
C22_ForecastRoundedToNearest ==
    ForecastMade =>
        LET num == eval.args.rf_pred + eval.args.gb_pred
            den == 2 * Scale
        IN  /\ eval.value \in Nat
            /\ \E r \in Nearest(num, den) : eval.value = Max(0, r)

(***************************************************************************)
(* _generate_daily_predictions over one engineered series                  *)
(***************************************************************************)
TrendWindow == 7       \* df['cases_trend'].tail(7)

\* Series.tail(n).mean() of an integer column, as the fraction sum / rows.
TailMean(col, n) ==
    LET R == Max(1, Len(col) - n + 1)..Len(col)
    IN  Val(SumOf(col, R), Cardinality(R))

\* _generate_daily_predictions: entry i is max(0, int(latest_cases + trend * i)).
GenerateDailyPredictions(fdf, days_ahead) ==
    LET latest_cases == fdf[Len(fdf)].cases
        trend == TailMean([k \in DOMAIN fdf |-> fdf[k].cases_trend], TrendWindow)
    IN  [i \in 1..days_ahead |->
            [day |-> i,
             predicted_cases |-> Max(0, Trunc(latest_cases * trend.den + trend.num * i,
                                              trend.den))]]

\* The days_ahead of the calls: none, one, the default.
DaysAhead == {0, 1, Horizon}

InitDailyForecast ==
    InitWith({AllRetrainable},
             [fn : {"_generate_daily_predictions"},
              args : [cases : PatternSeries, day : 1..FeatureDays, other : OtherCounts,
                      days_ahead : DaysAhead],
              done : {FALSE}, value : {<<>>}])

\* engineer_features, then _generate_daily_predictions, as in predict_outbreak.
EvalGenerateDailyPredictions ==
    /\ eval.fn = "_generate_daily_predictions" /\ ~eval.done
    /\ LET cases == [eval.args.cases EXCEPT ![eval.args.day] = eval.args.other]
           fdf == EngineerFeatures(FrameOf(cases))
       IN  eval' = [eval EXCEPT
                       !.done = TRUE,
                       !.value = [cases |-> cases,
                                  predictions |-> GenerateDailyPredictions(
                                                      fdf, eval.args.days_ahead)]]
    /\ UNCHANGED <<store, preds, last, files, alerts, session, nextId, notified, log, job,
                   now, sched, threads>>

NextDailyForecast == EvalGenerateDailyPredictions

SpecDailyForecast == InitDailyForecast /\ [][NextDailyForecast]_vars

DailyForecastMade == eval.fn = "_generate_daily_predictions" /\ eval.done

\* C23: the day-by-day forecast has days_ahead entries numbered 1..days_ahead,
\* each a non-negative integer, and entry i is max(0, round(last + trend * i))
\* with trend the mean of the last 7 first differences.
C23_DailyForecastRounded ==
    DailyForecastMade =>
        LET c == eval.value.cases
            n == Len(c)
            sum == c[n] - c[n - 7]
            out == eval.value.predictions
        IN  /\ Len(out) = eval.args.days_ahead
            /\ \A i \in DOMAIN out :
                  /\ out[i].day = i
                  /\ out[i].predicted_cases \in Nat
                  /\ \E r \in Nearest(7 * c[n] + sum * i, 7) :
                        out[i].predicted_cases = Max(0, r)

(***************************************************************************)
(* predict_outbreak of concurrent requests on the routes' module-level     *)
(* predictor, one step per read or write of the shared instance.  Every    *)
(* pair has enough rows; a fitted object is identified by the pair of the  *)
(* training run that fitted it, so objects of one run carry one pair.      *)
(***************************************************************************)
OnThread(t, pc) == threads[t].pc = pc

\* A request enters predict_outbreak; lines 201-208 read no shared state.
ThreadCall(t, p) ==
    /\ OnThread(t, "idle")
    /\ ~InsufficientData(FetchHistoricalData(store, p, Lookback))
    /\ threads' = [threads EXCEPT ![t] = [IdleThread EXCEPT !.pc = "check", !.pair = p]]
    /\ UNCHANGED <<store, preds, last, files, alerts, session, nextId, notified, log, job,
                   now, sched, eval>>

\* line 211: if not self.is_trained
ThreadCheckTrained(t) ==
    /\ OnThread(t, "check")
    /\ threads' = [threads EXCEPT ![t].pc = IF NeedsTraining(preds["routes"])
                                            THEN "fit_scaler" ELSE "columns",
                                  ![t].trained = NeedsTraining(preds["routes"])]
    /\ UNCHANGED <<store, preds, last, files, alerts, session, nextId, notified, log, job,
                   now, sched, eval>>

\* train_model, line 162: self.scaler.fit_transform(X) refits the shared scaler.
ThreadFitScaler(t) ==
    /\ OnThread(t, "fit_scaler")
    /\ preds' = [preds EXCEPT !["routes"].scaler = threads[t].pair]
    /\ threads' = [threads EXCEPT ![t].pc = "store_model"]
    /\ UNCHANGED <<store, last, files, alerts, session, nextId, notified, log, job,
                   now, sched, eval>>

\* train_model, lines 179-187: the regressors are fitted and self.model is set.
ThreadStoreModel(t) ==
    /\ OnThread(t, "store_model")
    /\ preds' = [preds EXCEPT !["routes"].model =
                                 [rf |-> threads[t].pair, gb |-> threads[t].pair]]
    /\ threads' = [threads EXCEPT ![t].pc = "set_flag"]
    /\ UNCHANGED <<store, last, files, alerts, session, nextId, notified, log, job,
                   now, sched, eval>>

\* train_model, line 188: self.is_trained = True
ThreadSetFlag(t) ==
    /\ OnThread(t, "set_flag")
    /\ preds' = [preds EXCEPT !["routes"].is_trained = TRUE]
    /\ threads' = [threads EXCEPT ![t].pc = "columns"]
    /\ UNCHANGED <<store, last, files, alerts, session, nextId, notified, log, job,
                   now, sched, eval>>

\* line 220: self.model['feature_columns'] raises TypeError on a None model.
ThreadReadColumns(t) ==
    /\ OnThread(t, "columns")
    /\ threads' = [threads EXCEPT ![t] =
                      IF preds["routes"].model = NoModel
                      THEN [@ EXCEPT !.pc = "idle", !.returned = TRUE, !.raised = TRUE]
                      ELSE [@ EXCEPT !.pc = "transform"]]
    /\ UNCHANGED <<store, preds, last, files, alerts, session, nextId, notified, log, job,
                   now, sched, eval>>

\* line 224: self.scaler.transform(latest_features)
ThreadTransform(t) ==
    /\ OnThread(t, "transform")
    /\ threads' = [threads EXCEPT ![t].pc = "rf", ![t].scaler = preds["routes"].scaler]
    /\ UNCHANGED <<store, preds, last, files, alerts, session, nextId, notified, log, job,
                   now, sched, eval>>

\* line 227: self.model['rf'].predict(latest_scaled)
ThreadPredictRf(t) ==
    /\ OnThread(t, "rf")
    /\ threads' = [threads EXCEPT ![t].pc = "gb", ![t].rf = preds["routes"].model.rf]
    /\ UNCHANGED <<store, preds, last, files, alerts, session, nextId, notified, log, job,
                   now, sched, eval>>

\* line 228: self.model['gb'].predict(latest_scaled); the rest of the call
\* reads no shared state and the result is returned.
ThreadPredictGb(t) ==
    /\ OnThread(t, "gb")
    /\ threads' = [threads EXCEPT ![t].pc = "idle", ![t].gb = preds["routes"].model.gb,
                                  ![t].returned = TRUE]
    /\ UNCHANGED <<store, preds, last, files, alerts, session, nextId, notified, log, job,
                   now, sched, eval>>

InitThreads == InitOver({AllRetrainable})

NextThreads ==
    \/ \E t \in Threads, p \in Pairs : ThreadCall(t, p)
    \/ \E t \in Threads : ThreadCheckTrained(t)
    \/ \E t \in Threads : ThreadFitScaler(t)
    \/ \E t \in Threads : ThreadStoreModel(t)
    \/ \E t \in Threads : ThreadSetFlag(t)
    \/ \E t \in Threads : ThreadReadColumns(t)
    \/ \E t \in Threads : ThreadTransform(t)
    \/ \E t \in Threads : ThreadPredictRf(t)
    \/ \E t \in Threads : ThreadPredictGb(t)

SpecThreads == InitThreads /\ [][NextThreads]_vars

\* C25: in every interleaving, the scaler a call applied and the regressors
\* that consumed its output come from one training run, and a set flag
\* comes with a model.
C25_ScalerAndRegressorsOfOneRun ==
    /\ \A t \in Threads :
          (threads[t].returned /\ ~threads[t].raised) =>
              /\ threads[t].scaler = threads[t].rf
              /\ threads[t].scaler = threads[t].gb
    /\ preds["routes"].is_trained => preds["routes"].model # NoModel

(***************************************************************************)
(* The daily pass, the weekly retraining and the predict API over one      *)
(* models directory, from a start-up and from the state a daily pass left  *)
(***************************************************************************)
\* The scheduler's predictor as constructed, and as a daily pass that fitted
\* it on pair p leaves it.
SchedulerPredictors ==
    {NewPredictor} \cup
    {TrainModel(NewPredictor, AllRetrainable, p, Lookback, "none").pred : p \in Pairs}

InitWeekly ==
    /\ store = AllRetrainable
    /\ preds \in [Instances -> SchedulerPredictors]
    /\ preds["routes"] = NewPredictor
    /\ last = NoCall
    /\ files = <<>>
    /\ alerts = <<>>
    /\ session = <<>>
    /\ nextId = 1
    /\ notified = <<>>
    /\ log = <<>>
    /\ job = Idle(0)
    /\ now = 0
    /\ sched = NoSched
    /\ eval = NoEval
    /\ threads = [t \in Threads |-> IdleThread]

NextWeekly ==
    \/ \E order \in Orders({p \in Pairs : DailyQualifies(store[p])}) :
          DailyBegin(FALSE, order)
    \/ \E in \in AlertReadings : DailyPair(in)
    \/ DailyCommit(FALSE)
    \/ \E order \in Orders({p \in Pairs : RetrainQualifies(store[p])}) :
          RetrainBegin(FALSE, order)
    \/ \E fault \in {"none", "fit"}, wfault \in {"none", "dump"} : RetrainPair(fault, wfault)
    \/ RetrainEnd
    \/ JobReturn
    \/ \E p \in Pairs, in \in AlertReadings : PredictApi(p, in, FALSE)

SpecWeekly == InitWeekly /\ [][NextWeekly]_vars

\* A step of the retraining job: its start, an iteration, its end, its return.
RetrainStep == job' # job /\ (job.name = "retrain" \/ job'.name = "retrain")

\* C26: no step of a retraining changes the model, scaler or flag of the
\* scheduler's predictor or of the routes' one; an in-memory model changes
\* only when a call fits an untrained predictor on the pair it predicts,
\* never from the models directory, so a fitted predictor keeps its model
\* from one daily pass to the next whatever was retrained in between.
C26_RetrainLeavesMemoryModel ==
    [][/\ RetrainStep => preds' = preds
       /\ \A i \in Instances :
             preds'[i] # preds[i] =>
                 /\ ~preds[i].is_trained
                 /\ files' = files
                 /\ preds'[i].scaler \in Pairs
                 /\ preds'[i].is_trained => preds'[i].model.rf = preds'[i].scaler]_vars

\* C26 witness: a daily pass that followed a retraining has predicted a pair
\* whose retrained bundle is on disk, with the model the scheduler's
\* predictor had been fitted with on another pair.
C26_Witness ==
    /\ job.name = "daily" /\ job.pc = "done" /\ job.committed /\ job.run = 2
    /\ preds["scheduler"].is_trained
    /\ \E p \in Pairs :
          /\ p # preds["scheduler"].model.rf
          /\ ModelPath(p) \in DOMAIN files
          /\ files[ModelPath(p)].model.rf = p
          /\ job.outcome[p] \in Risks

(***************************************************************************)
(* Notifications against persisted alerts                                  *)
(***************************************************************************)
\* C27: when a daily pass has ended, every pair for which the pass
\* dispatched a notification has an alert of that pass in the alert table.
C27_NotifiedPairsHaveAlerts ==
    (job.name = "daily" /\ job.pc = "done") =>
        \A p \in Pairs : PassNotices(p) # {} => PassRows(alerts, p) # {}

\* C28: a request of the predict API that committed an alert is answered
\* with status 200 and the prediction result, whatever the risk level.
C28_CommittedRequestAnswered ==
    [][(last'.inst = "predict_outbreak_api" /\ last' # last /\ Len(alerts') > Len(alerts)) =>
          /\ last'.status = 200
          /\ last'.result.error = ""
          /\ last'.result.risk_level = alerts'[Len(alerts')].risk_level]_vars

(***************************************************************************)
(* The confidence and the trend of the results of predict_outbreak         *)
(***************************************************************************)
\* Readings of a series with a recent std at, above and far below the
\* noise threshold.
NoisyReadings ==
    {o \in FlatInputs({"none"}, {0, NoisyStd, NoisyStd + 1}) : o.gb = o.rf /\ ~o.incr}

\* Pairs without a row in the window, with rows on one day of it and with
\* rows on MinRows days, together with what a call reads from their series.
NoisyProfiles ==
    [total : {RetrainMinCases}, active : {0, 1, MinRows}, obs : NoisyReadings]

InitResults == InitOver([Pairs -> NoisyProfiles])

NextResults == \E p \in Pairs : PredictStored(p)

SpecResults == InitResults /\ [][NextResults]_vars

\* The latest call returned a prediction.
Predicted == last.called /\ ~last.raised /\ last.result.error = ""

\* C29: no returned prediction has confidence LOW; its confidence is MEDIUM
\* when the recent std of the series exceeds 10 and HIGH otherwise.
C29_ConfidenceNeverLow ==
    Predicted =>
        /\ last.result.confidence # "LOW"
        /\ last.result.confidence =
               IF store[last.pair].obs.std > 10 THEN "MEDIUM" ELSE "HIGH"

\* C29 witness: a pair with rows on a single day of the window got a
\* prediction of confidence HIGH, and a noisy one a prediction of MEDIUM.
C29_Witness ==
    /\ Predicted
    /\ store[last.pair].active = 1
    /\ store[last.pair].obs.std = 10
    /\ last.result.confidence = "HIGH"
    /\ \E q \in Pairs : store[q].obs.std > 10 /\ store[q].active > 0

\* mutant: a flat series counts as increasing
IsIncreasing_flat(recent_trend) == recent_trend.num * recent_trend.den >= 0

\* line 241: is_increasing = recent_trend > 0
IsIncreasing(recent_trend) == recent_trend.num * recent_trend.den > 0

\* line 269: "increasing" if is_increasing else "decreasing"
TrendLabel(is_increasing) == IF is_increasing THEN "increasing" ELSE "decreasing"

InitTrend ==
    InitWith({AllRetrainable},
             [fn : {"trend"}, args : FeatureArgs, done : {FALSE}, value : {<<>>}])

\* Lines 217 and 240-241 with line 269 on one series.
EvalTrend ==
    /\ eval.fn = "trend" /\ ~eval.done
    /\ LET cases == [eval.args.cases EXCEPT ![eval.args.day] = eval.args.other]
           fdf == EngineerFeatures(FrameOf(cases))
           recent_trend == TailMean([k \in DOMAIN fdf |-> fdf[k].cases_trend], TrendWindow)
       IN  eval' = [eval EXCEPT
                       !.done = TRUE,
                       !.value = [cases |-> cases, recent_trend |-> recent_trend,
                                  trend |-> TrendLabel(IsIncreasing(recent_trend))]]
    /\ UNCHANGED <<store, preds, last, files, alerts, session, nextId, notified, log, job,
                   now, sched, threads>>

NextTrend == EvalTrend

SpecTrend == InitTrend /\ [][NextTrend]_vars

TrendReported == eval.fn = "trend" /\ eval.done

\* C30: the trend is "increasing" exactly when the last count is above the
\* count 7 days earlier, and "decreasing" otherwise, a flat series included;
\* the mean of the last 7 first differences is (c[n] - c[n-7]) / 7.
C30_TrendIsSevenDayChange ==
    TrendReported =>
        LET c == eval.value.cases
            n == Len(c)
        IN  /\ eval.value.trend \in {"increasing", "decreasing"}
            /\ eval.value.trend = "increasing" <=> c[n] > c[n - 7]
            /\ 7 * eval.value.recent_trend.num = (c[n] - c[n - 7]) * eval.value.recent_trend.den

\* C30 witness: a series whose last count equals the count 7 days earlier,
\* with other counts in between, reported as decreasing.
C30_Witness ==
    /\ TrendReported
    /\ eval.value.cases[Len(eval.value.cases)] = eval.value.cases[Len(eval.value.cases) - 7]
    /\ eval.value.cases[Len(eval.value.cases)] # eval.value.cases[Len(eval.value.cases) - 1]
    /\ eval.value.trend = "decreasing"

====
